---- MODULE Spec2Model ----
(***************************************************************************)
(* Model of the marko 4.18.39 browser runtime bundled in                   *)
(* src/unnamed/part_000: the virtual-DOM reconciler (morphdom), the        *)
(* component renderer / lifecycle and the update manager.                  *)
(*                                                                         *)
(* Real DOM nodes live in a store indexed by node handles.  A fragment     *)
(* (morphdom/fragment.js) is kept as one node with its own child list: the *)
(* helpers nextSibling / firstChild / insertBefore of morphdom/helpers.js  *)
(* present exactly this view of the two boundary markers.                  *)
(* Modelled pass: client-side render (isHydrate = false), element flags 0   *)
(* (no FLAG_SIMPLE_ATTRS, no custom elements), every virtual node owned by *)
(* the component whose template emitted it (no transcluded body content).  *)
(***************************************************************************)
EXTENDS Integers, Sequences, FiniteSets, TLC

VARIABLES nodes, insts, lookup, batchStack, unbatchedQueue, updatesScheduled, ticks, pass, out, vel, vdom, keyseq,
          attrEl, state, component

vars == <<nodes, insts, lookup, batchStack, unbatchedQueue, updatesScheduled, ticks, pass, out, vel, vdom, keyseq, attrEl, state, component>>

(* ------------------------------ bounds -------------------------------- *)
MaxNodes == 8
MaxInst == 3
MaxKids == 3
MaxCount == 1
MaxOuts == 3
MaxExtra == 1
MaxAppend == 3
MaxVNodes == 4
MaxCalls == 4
MaxQueue == 3

(* ------------------------- program constants -------------------------- *)
ELEMENT_NODE == 1
COMPONENT_NODE == 2
TEXT_NODE == 3
FRAGMENT_NODE == 12

\* handles of real nodes: as many as the page may keep, and as many again for the nodes a handler
\* makes while the ones it drops are not yet collected
NodeIds == 1..(2 * MaxNodes)
Container == 1

\* the three "no key" values of the code: a key string, null (unkeyed VElement), undefined (VText, preserved VComponent, unset WeakMap entry)
KNull == "<null>"
KUndef == "<undefined>"
IsKey(k) == k # KNull /\ k # KUndef

\* detachedByDOMNode values: undefined, true, or an owner component handle (> 0)
DetNone == -1
DetTrue == 0

\* attribute maps: one entry per attribute name; Absent = name not in the map, ANull = null / undefined / false value
AttrNames == {"class"}
Absent == "<absent>"
ANull == "<nullish>"
NoAttrs == [a \in AttrNames |-> Absent]

BlankNode ==
    [live |-> FALSE, type |-> 0, tag |-> "", key |-> KUndef, vel |-> FALSE, vkey |-> KUndef,
     vattrs |-> NoAttrs, attrs |-> NoAttrs, cid |-> 0, val |-> "", kids |-> <<>>, comp |-> 0, det |-> DetNone]

(* ------------------------- sequence utilities ------------------------- *)
InSeq(x, s) == \E i \in 1..Len(s) : s[i] = x
IndexOf(s, x) == CHOOSE i \in 1..Len(s) : s[i] = x
RemoveFrom(s, x) == SelectSeq(s, LAMBDA y : y # x)
InsertAt(s, i, x) == SubSeq(s, 1, i - 1) \o <<x>> \o SubSeq(s, i, Len(s))
RECURSIVE SetToSeq(_)
SetToSeq(S) == IF S = {} THEN <<>> ELSE LET x == CHOOSE y \in S : TRUE IN <<x>> \o SetToSeq(S \ {x})

MapGet(m, k, dflt) == IF k \in DOMAIN m THEN m[k] ELSE dflt
MapPut(m, k, v) == [x \in DOMAIN m \cup {k} |-> IF x = k THEN v ELSE m[x]]
MapDel(m, k) == [x \in DOMAIN m \ {k} |-> m[x]]
EmptyMap == [x \in {} |-> 0]

(* --------------------------- real DOM access --------------------------- *)
HasParent(ns, n) == \E p \in NodeIds : ns[p].live /\ InSeq(n, ns[p].kids)
ParentOf(ns, n) == IF HasParent(ns, n) THEN CHOOSE p \in NodeIds : ns[p].live /\ InSeq(n, ns[p].kids) ELSE 0

\* helpers.nextSibling: the following sibling, a fragment counting as one node; null (0) at the end of the parent or of the enclosing fragment
nextSibling(ns, n) ==
    LET p == ParentOf(ns, n) IN
    IF p = 0 THEN 0
    ELSE LET i == IndexOf(ns[p].kids, n) IN
         IF i < Len(ns[p].kids) THEN ns[p].kids[i + 1] ELSE 0

\* helpers.firstChild
firstChild(ns, n) == IF ns[n].kids = <<>> THEN 0 ELSE Head(ns[n].kids)

FreeNodes(ns) == {n \in NodeIds : ~ns[n].live}
\* a new DOM object: a handle no live or still referenced node carries
NewNode(ns) == CHOOSE n \in FreeNodes(ns) : \A m \in FreeNodes(ns) : n <= m

(* ------------------------- component instances ------------------------ *)
\* Component constructor: a fresh instance with the given id
NewInst(id, type) ==
    [id |-> id, type |-> type, destroyed |-> FALSE, mounted |-> FALSE, root |-> 0, ke |-> EmptyMap,
     dirty |-> FALSE, updateQueued |-> FALSE, input |-> [has |-> FALSE, v |-> <<>>],
     hasState |-> FALSE, sraw |-> EmptyMap, sold |-> EmptyMap, schanges |-> EmptyMap, sdirty |-> FALSE,
     nCreate |-> 0, nMount |-> 0, nDestroy |-> 0, subs |-> FALSE, owed |-> {}]

Handles(is) == 1..Len(is)
Cap(n) == IF n > 3 THEN 3 ELSE n

\* emitLifecycleEvent: the hook and the event are recorded in the log of the running handler
Emit(st, ev, h) == [st EXCEPT !.log = Append(@, <<ev, h>>)]
CountEv(log, ev, h) == Cardinality({i \in 1..Len(log) : log[i] = <<ev, h>>})
\* the same log also notes, for the properties, which renderer and which re-render ran
Note(st, what, h) == [st EXCEPT !.log = Append(@, <<what, h>>)]

(* -------------------------- real DOM mutation ------------------------- *)
DetachFromParent(ns, n) ==
    [p \in NodeIds |-> IF ns[p].live /\ InSeq(n, ns[p].kids) THEN [ns[p] EXCEPT !.kids = RemoveFrom(@, n)] ELSE ns[p]]

\* the node n, taken out of where it was (ns1), becomes the i-th child of parent
placed(st, n, parent, ns1, wasIn, i) ==
    [st EXCEPT !.nodes = [ns1 EXCEPT ![parent].kids = InsertAt(@, i, n)],
               !.mov = IF wasIn THEN @ + 1 ELSE @,
               !.ins = IF wasIn THEN @ ELSE @ + 1]

\* parent.insertBefore(n, ref) on the child list the removal of n leaves
insertInto(st, n, ref, parent, ns1, wasIn) ==
    IF ref # 0 /\ ~InSeq(ref, ns1[parent].kids)
    THEN [st EXCEPT !.err = TRUE]
    ELSE placed(st, n, parent, ns1, wasIn,
                IF ref = 0 THEN Len(ns1[parent].kids) + 1 ELSE IndexOf(ns1[parent].kids, ref))

\* helpers.insertBefore (and fragment.insertInto / fragment.insertBefore): node n, with everything between
\* its markers when it is a fragment, is put in front of ref among the children of parent; ref = 0 appends.
\* A reference that is not a child of parent makes the DOM call throw.
insertBefore(st, n, ref, parent) ==
    IF n = ref THEN [st EXCEPT !.mov = @ + 1]
    ELSE insertInto(st, n, ref, parent, DetachFromParent(st.nodes, n), HasParent(st.nodes, n))

\* helpers.insertAfter: insertBefore(node, referenceNode && referenceNode.nextSibling, parentNode)
insertAfter(st, n, ref, parent) ==
    IF ref = 0 THEN insertBefore(st, n, 0, parent)
    ELSE IF ParentOf(st.nodes, ref) = 0 THEN insertBefore(st, n, 0, parent)
    ELSE IF ParentOf(st.nodes, ref) # parent THEN [st EXCEPT !.err = TRUE]
    ELSE insertBefore(st, n, nextSibling(st.nodes, ref), parent)

\* helpers.removeChild: node.remove()
removeChild(st, n) ==
    IF HasParent(st.nodes, n)
    THEN [st EXCEPT !.nodes = DetachFromParent(st.nodes, n), !.rem = @ + 1]
    ELSE st

(* ------------------------------ destroy -------------------------------- *)
destroyShallow_listening(st, h) ==
    IF st.insts[h].destroyed THEN st
    ELSE [Emit(st, "destroy", h)
             EXCEPT !.insts[h].nDestroy = Cap(@ + 1),
                    !.insts[h].destroyed = TRUE,
                    !.insts[h].root = 0,
                    !.nodes = IF st.insts[h].root = 0 THEN @ ELSE [@ EXCEPT ![st.insts[h].root].comp = 0]]
\* Component.___destroyShallow; subs tells whether the component has a subscription tracker
\* (___subscriptions), whose listeners are removed
destroyShallow(st, h) ==
    IF st.insts[h].destroyed THEN st
    ELSE [Emit(st, "destroy", h)
             EXCEPT !.insts[h].nDestroy = Cap(@ + 1),
                    !.insts[h].destroyed = TRUE,
                    !.insts[h].root = 0,
                    !.insts[h].subs = FALSE,
                    !.nodes = IF st.insts[h].root = 0 THEN @ ELSE [@ EXCEPT ![st.insts[h].root].comp = 0]]

\* delete componentLookup[component.id]
unregister(s1, h) == [s1 EXCEPT !.lookup = MapDel(@, s1.insts[h].id)]

destroyComponentForNode_skip(st, n) == st
\* destroyComponentForNode
destroyComponentForNode(st, n) ==
    IF st.nodes[n].comp = 0 THEN st
    ELSE unregister(destroyShallow(st, st.nodes[n].comp), st.nodes[n].comp)

RECURSIVE destroyNodeRecursive(_, _, _, _)
RECURSIVE destroyKids(_, _, _, _)
RECURSIVE destroyInside(_, _, _, _)
\* destroyNodeRecursive(node, component).  viaMarker: the node is a fragment met while walking the raw child
\* list of an ancestor, where only its two marker text nodes are visited: its component is destroyed and
\* its content is walked, but the key of the fragment itself is not looked at.
destroyNodeRecursive(st, n, c, viaMarker) ==
    destroyInside(destroyComponentForNode(st, n), n, c, viaMarker)

\* the rest of destroyNodeRecursive, the component of the node being destroyed: the key of an element or
\* fragment is taken out of the keyed elements of the owner, then its children are walked
destroyInside(s1, n, c, viaMarker) ==
    IF s1.nodes[n].type = ELEMENT_NODE \/ s1.nodes[n].type = FRAGMENT_NODE
    THEN destroyKids(IF /\ ~viaMarker
                        /\ c # 0
                        /\ IsKey(s1.nodes[n].key)
                        /\ MapGet(s1.insts[c].ke, s1.nodes[n].key, 0) = n
                     THEN [s1 EXCEPT !.insts[c].ke = MapDel(@, s1.nodes[n].key)]
                     ELSE s1,
                     s1.nodes[n].kids, 1, c)
    ELSE s1

destroyKids(st, ks, i, c) ==
    IF i > Len(ks) THEN st
    ELSE destroyKids(destroyNodeRecursive(st, ks[i], c, st.nodes[ks[i]].type = FRAGMENT_NODE), ks, i + 1, c)

\* the node leaves the child list of the root
removed(s1, n) == [s1 EXCEPT !.nodes = DetachFromParent(s1.nodes, n)]

RECURSIVE removeContent(_, _, _)
\* the forEach of Component.destroy over root.nodes: every node between the markers is destroyed and removed
removeContent(st, ks, i) ==
    IF i > Len(ks) THEN st
    ELSE removeContent(removed(destroyNodeRecursive(st, ks[i], 0, st.nodes[ks[i]].type = FRAGMENT_NODE),
                               ks[i]), ks, i + 1)

\* delete componentLookup[this.id]; this.___keyedElements = {}
forget(s3, h) == [s3 EXCEPT !.lookup = MapDel(@, s3.insts[h].id), !.insts[h].ke = EmptyMap]

\* the second half of Component.destroy: the nodes of the root fragment are destroyed and removed, the
\* fragment is detached
destroyRoot(s1, h, root) ==
    IF root = 0 THEN [s1 EXCEPT !.err = TRUE]
    ELSE forget(removeChild(removeContent(s1, s1.nodes[root].kids, 1), root), h)

\* Component.destroy
destroy(st, h) ==
    IF st.insts[h].destroyed THEN st
    ELSE destroyRoot(destroyShallow(st, h), h, st.insts[h].root)

(* ---------------------------- virtual nodes ---------------------------- *)
\* var constId: the ___constId of an element made without props.i is undefined
NoConstId == 0
VElement(tag, attrs, key, kids, cid) ==
    [vt |-> ELEMENT_NODE, key |-> key, tag |-> tag, attrs |-> attrs, val |-> "", kids |-> kids,
     comp |-> 0, preserve |-> FALSE, cid |-> cid]
VText(val) ==
    [vt |-> TEXT_NODE, key |-> KUndef, tag |-> "", attrs |-> NoAttrs, val |-> val, kids |-> <<>>,
     comp |-> 0, preserve |-> FALSE, cid |-> 0]
VComponent(c, key, preserve, kids) ==
    [vt |-> COMPONENT_NODE, key |-> key, tag |-> "", attrs |-> NoAttrs, val |-> "", kids |-> kids,
     comp |-> c, preserve |-> preserve, cid |-> 0]

\* new KeySequence(): the lookup table is empty; calls lists <<key, result>> of the calls of ___nextKey
NewKeySequence == [lookup |-> EmptyMap, calls |-> <<>>]

nextKey_counting(tbl, key) ==
    <<key \o "_" \o ToString(MapGet(tbl, key, 0)), MapPut(tbl, key, MapGet(tbl, key, 0) + 1)>>
\* KeySequence.___nextKey over the lookup table of one sequence: <<resolved key, new table>>
nextKey(tbl, key) ==
    LET n == MapGet(tbl, key, 0) IN
    IF n = 0 THEN <<key, MapPut(tbl, key, 1)>>
    ELSE <<key \o "_" \o ToString(n), MapPut(tbl, key, n + 1)>>

\* value written to the real attribute by ___actualize / ___morphAttrs
RealAttr(v) == IF v = ANull THEN Absent ELSE v

\* VElement.___actualize / VText.___actualize into the free handle n
actualize(v, n) ==
    [BlankNode EXCEPT !.live = TRUE, !.type = v.vt, !.tag = v.tag, !.val = v.val,
                      !.vel = (v.vt = ELEMENT_NODE),
                      !.vkey = IF v.vt = ELEMENT_NODE THEN v.key ELSE KUndef,
                      !.vattrs = v.attrs,
                      !.attrs = [a \in AttrNames |-> RealAttr(v.attrs[a])],
                      !.cid = v.cid]

attrDiffers_always(old, new) == TRUE
\* oldAttrs[attrName] !== attrValue
attrDiffers(old, new) == old # new

\* VElement.___morphAttrs (flags 0: the general path)
morphAttrs(st, n, v) ==
    LET old == st.nodes[n].vattrs
        writes == {a \in AttrNames :
                     \/ v.attrs[a] = ANull /\ st.nodes[n].attrs[a] # Absent
                     \/ v.attrs[a] \notin {Absent, ANull} /\ attrDiffers(old[a], v.attrs[a])
                     \/ v.key = KNull /\ v.attrs[a] = Absent /\ old[a] # Absent /\ st.nodes[n].attrs[a] # Absent}
        new == [a \in AttrNames |->
                  IF v.attrs[a] = ANull THEN Absent
                  ELSE IF v.attrs[a] # Absent
                       THEN (IF attrDiffers(old[a], v.attrs[a]) THEN v.attrs[a] ELSE st.nodes[n].attrs[a])
                       ELSE IF v.key = KNull /\ old[a] # Absent THEN Absent ELSE st.nodes[n].attrs[a]]
    IN [st EXCEPT !.nodes[n].vel = TRUE, !.nodes[n].vkey = v.key, !.nodes[n].vattrs = v.attrs,
                  !.nodes[n].cid = v.cid, !.nodes[n].attrs = new,
                  !.attrw = @ + Cardinality(writes)]

\* detachNode of morphdom: elements and fragments are only marked, the rest goes at once
detachNode(st, n, owner) ==
    IF st.nodes[n].type = ELEMENT_NODE \/ st.nodes[n].type = FRAGMENT_NODE
    THEN [st EXCEPT !.det = Append(@, n), !.nodes[n].det = IF owner = 0 THEN DetTrue ELSE owner,
                    !.detn = @ + 1]
    ELSE removeChild(destroyNodeRecursive([st EXCEPT !.detn = @ + 1], n, 0, FALSE), n)

(* ------------------- attributes of a real element --------------------- *)
NS_XLINK == "http://www.w3.org/1999/xlink"
ATTR_XLINK_HREF == "xlink:href"
ATTR_HREF == "href"
\* no namespace (the argument null of setAttribute and removeAttribute)
NoNS == ""

\* the attribute names of a virtual attribute map, and the values an entry can have: none (no entry),
\* null or undefined, false, true, or a string
VAttrNames == {"class", ATTR_XLINK_HREF}
AFalse == "<false>"
ATrue == "<true>"
VAttrValues == {Absent, ANull, AFalse, ATrue, "x", "y"}
VAttrMaps == [VAttrNames -> VAttrValues]

\* the attributes a real element can have, by namespace and local name (the last is the one that
\* removeAttributeNS(ATTR_XLINK_HREF, ATTR_HREF) names)
RealAttrNames == {<<NoNS, "class">>, <<NS_XLINK, ATTR_HREF>>, <<ATTR_XLINK_HREF, ATTR_HREF>>}
NoRealAttrs == [q \in RealAttrNames |-> Absent]

\* convertAttrValue(type, value) for a value that is not a string, and the string itself otherwise
convertAttrValue(value) == IF value = ATrue THEN "" ELSE value

\* the namespace and local name under which ___actualize and the loop over attrs write attrName
qualified(attrName) == IF attrName = ATTR_XLINK_HREF THEN <<NS_XLINK, ATTR_HREF>> ELSE <<NoNS, attrName>>

\* the loop over the attributes of ___actualize
actualizeAttrs(attributes) ==
    [q \in RealAttrNames |->
        IF \E a \in VAttrNames : qualified(a) = q /\ attributes[a] \notin {Absent, ANull, AFalse}
        THEN convertAttrValue(attributes[CHOOSE a \in VAttrNames : qualified(a) = q])
        ELSE Absent]

\* the first loop of ___morphAttrs: an entry of attrs is removed from the element when it is null,
\* undefined or false, and set when it differs from the entry of oldAttrs
setAttrs(real, oldAttrs, attrs) ==
    [q \in RealAttrNames |->
        IF \E a \in VAttrNames : qualified(a) = q /\ attrs[a] # Absent
        THEN LET a == CHOOSE b \in VAttrNames : qualified(b) = q
             IN IF attrs[a] \in {ANull, AFalse} THEN Absent
                ELSE IF oldAttrs[a] # attrs[a] THEN convertAttrValue(attrs[a])
                ELSE real[q]
        ELSE real[q]]

\* the attribute that the second loop of ___morphAttrs removes for the entry attrName of oldAttrs:
\* removeAttributeNS(ATTR_XLINK_HREF, ATTR_HREF) or removeAttribute(attrName)
removedName(attrName) ==
    IF attrName = ATTR_XLINK_HREF THEN <<ATTR_XLINK_HREF, ATTR_HREF>> ELSE <<NoNS, attrName>>

\* the second loop of ___morphAttrs, made when toEl.___key === null
removeAttrs(real, oldAttrs, attrs) ==
    [q \in RealAttrNames |->
        IF \E a \in VAttrNames : oldAttrs[a] # Absent /\ attrs[a] = Absent /\ removedName(a) = q
        THEN Absent ELSE real[q]]

\* VElement.___morphAttrs(fromEl, vFromEl, toEl) on the general path (no custom element, no simple
\* attributes, no preserved attributes): the attributes of fromEl afterwards
generalMorphAttrs(real, oldAttrs, attrs, key) ==
    IF key = KNull THEN removeAttrs(setAttrs(real, oldAttrs, attrs), oldAttrs, attrs)
    ELSE setAttrs(real, oldAttrs, attrs)

\* no element yet
NoAttrEl == [op |-> "none", key |-> KNull, real |-> NoRealAttrs, attrs |-> [a \in VAttrNames |-> Absent],
             oldAttrs |-> [a \in VAttrNames |-> Absent], was |-> NoRealAttrs]

(* ------------------------------ morphdom ------------------------------- *)
compareNodeNames_any(fromEl, toEl) == TRUE
\* compareNodeNames(fromEl, toEl)
compareNodeNames(fromEl, toEl) == fromEl.tag = toEl.tag

\* record of the scan for a target without key: what the scan looked at (the target itself, a real node
\* passed over, the real node taken, or none left), with the facts it read of it
Scanned(st, ev, n, type, tag, keyed, comp) ==
    [st EXCEPT !.scan = Append(@, [ev |-> ev, n |-> n, type |-> type, tag |-> tag, keyed |-> keyed,
                                   comp |-> comp, attached |-> FALSE, at |-> 0, pos |-> 0, under |-> {},
                                   key |-> KUndef, pc |-> 0, reg |-> FALSE, par |-> 0, h |-> 0, preserve |-> FALSE, content |-> <<>>, kept |-> FALSE,
                                   after |-> <<>>])]
ScannedTarget(st, ev, v) == Scanned(st, ev, 0, v.vt, v.tag, FALSE, FALSE)
ScannedNode(st, ev, n) ==
    Scanned(st, ev, n, st.nodes[n].type, st.nodes[n].tag, IsKey(st.nodes[n].vkey), st.nodes[n].comp # 0)

RECURSIVE Dfs(_, _)
RECURSIVE DfsSeq(_, _, _)
\* the components that have their root under the node n
Under(st, n) ==
    {h \in Handles(st.insts) :
        ~st.insts[h].destroyed /\ st.insts[h].root # 0 /\ InSeq(st.insts[h].root, Dfs(st.nodes, n))}

\* record of a node taken back from the detached nodes for the i-th target, with the components under it
Revived(st, n, i) ==
    [st EXCEPT !.scan = Append(@, [ev |-> "revive", n |-> n, type |-> st.nodes[n].type, tag |-> st.nodes[n].tag,
                                   keyed |-> TRUE, comp |-> st.nodes[n].comp # 0, attached |-> FALSE,
                                   at |-> i, pos |-> 0, under |-> Under(st, n),
                                   key |-> KUndef, pc |-> 0, reg |-> FALSE, par |-> 0, h |-> 0, preserve |-> FALSE, content |-> <<>>, kept |-> FALSE,
                                   after |-> <<>>])]

\* what is under the node n: type, tag name, attributes, value and number of children of each node, in
\* document order
Content(ns, n) ==
    [j \in 1..Len(Dfs(ns, n)) |->
        <<ns[Dfs(ns, n)[j]].type, ns[Dfs(ns, n)[j]].tag, ns[Dfs(ns, n)[j]].attrs, ns[Dfs(ns, n)[j]].val,
          Len(ns[Dfs(ns, n)[j]].kids)>>]

\* record of the i-th target being the placeholder v of a mounted component: its root node and what is
\* under it
Placeholder(st, v, i) ==
    [st EXCEPT !.scan = Append(@, [ev |-> "placeholder", n |-> st.insts[v.comp].root, type |-> FRAGMENT_NODE,
                                   tag |-> "", keyed |-> FALSE, comp |-> TRUE, attached |-> FALSE,
                                   at |-> i, pos |-> 0, under |-> {}, key |-> KUndef, pc |-> 0, reg |-> FALSE,
                                   par |-> 0, h |-> v.comp, preserve |-> v.preserve,
                                   content |-> Content(st.nodes, st.insts[v.comp].root), kept |-> FALSE,
                                   after |-> <<>>])]

\* record of a node n met for the i-th target, whose resolved key is key: the node found under the
\* key, or the node made for the target
Keyed(st, ev, n, tag, i, key, pc) ==
    [st EXCEPT !.scan = Append(@, [ev |-> ev, n |-> n, type |-> ELEMENT_NODE, tag |-> tag,
                                   keyed |-> TRUE, comp |-> FALSE, attached |-> FALSE,
                                   at |-> i, pos |-> 0, under |-> {}, key |-> key, pc |-> pc, reg |-> FALSE, par |-> 0, h |-> 0, preserve |-> FALSE, content |-> <<>>, kept |-> FALSE,
                                   after |-> <<>>])]

\* record of the two nodes of a target whose tag name differs from the one of the node m found under
\* its key: m, and the node that insertVirtualNodeBefore is about to make
Incompatible(st, m, v, i, key, pc) ==
    Keyed(Keyed(st, "located", m, st.nodes[m].tag, i, key, pc),
          "fresh", IF FreeNodes(st.nodes) = {} THEN 0 ELSE NewNode(st.nodes), v.tag, i, key, pc)

\* the attributes and the type and tag name of each child of the real node n
Shallow(ns, n) ==
    <<ns[n].attrs, [j \in 1..Len(ns[n].kids) |-> <<ns[ns[n].kids[j]].type, ns[ns[n].kids[j]].tag>>]>>
\* and the ones the virtual element v asks for
VShallow(v) ==
    <<[a \in AttrNames |-> RealAttr(v.attrs[a])], [j \in 1..Len(v.kids) |-> <<v.kids[j].vt, v.kids[j].tag>>]>>

\* record of morphEl called for the real element n and the virtual element v: the two constant ids,
\* what is under n at the call and what v asks for (kept only by a pass that watches its elements)
Morphed(st, n, v) ==
    IF ~st.watch THEN st
    ELSE [st EXCEPT !.els = Append(@, [n |-> n, content |-> Content(st.nodes, n), after |-> <<>>,
                                       cids |-> <<st.nodes[n].cid, v.cid>>, want |-> VShallow(v),
                                       got |-> <<>>])]

sameConstId_never(constId, fromConstId) == FALSE
\* constId !== undefined && vFromEl.___constId === constId
sameConstId(constId, fromConstId) == constId # NoConstId /\ fromConstId = constId

RECURSIVE morphChildren(_, _, _, _)
RECURSIVE morphLoop(_, _, _, _, _, _, _)
RECURSIVE componentBranch(_, _, _, _, _, _, _)
RECURSIVE keyedBranch(_, _, _, _, _, _, _)
RECURSIVE unkeyedScan(_, _, _, _, _, _, _)
RECURSIVE leftover(_, _, _, _)
RECURSIVE morphEl(_, _, _, _)
RECURSIVE insertVirtualNodeBefore(_, _, _, _, _, _)
RECURSIVE insertVirtualComponentBefore(_, _, _, _, _, _)
RECURSIVE morphComponent(_, _, _)
RECURSIVE insertedNode(_, _, _, _, _)
RECURSIVE insertedComponent(_, _, _, _)
RECURSIVE movedComponent(_, _, _)
RECURSIVE keyedResolved(_, _, _, _, _, _, _, _)
RECURSIVE keyedAt(_, _, _, _, _, _, _, _, _, _)
RECURSIVE keyedFound(_, _, _, _, _, _, _, _, _, _)
RECURSIVE replaced(_, _, _)
RECURSIVE morphMoved(_, _, _, _)
RECURSIVE detachedCur(_, _, _)

\* insertVirtualNodeBefore(vNode, key, referenceEl, parentEl, ownerComponent, parentComponent)
insertVirtualNodeBefore(st, v, key, ref, parent, pc) ==
    IF FreeNodes(st.nodes) = {} THEN [st EXCEPT !.full = TRUE, !.err = TRUE]
    ELSE insertedNode(insertBefore([st EXCEPT !.nodes[NewNode(st.nodes)] = actualize(v, NewNode(st.nodes)),
                                              !.created = @ + 1],
                                   NewNode(st.nodes), ref, parent),
                      v, key, NewNode(st.nodes), pc)

\* the realised node n is in place: a keyed element is registered with the parent component, and the
\* children of an element are made
insertedNode(s1, v, key, n, pc) ==
    IF s1.err THEN s1
    ELSE IF v.vt = ELEMENT_NODE
    THEN IF IsKey(key)
         THEN IF pc = 0 THEN [s1 EXCEPT !.err = TRUE]
              ELSE morphChildren([s1 EXCEPT !.nodes[n].key = key, !.insts[pc].ke = MapPut(@, key, n)],
                                 n, v.kids, pc)
         ELSE morphChildren(s1, n, v.kids, pc)
    ELSE s1

\* insertVirtualComponentBefore(vComponent, referenceNode, referenceNodeParentEl, component, key, ownerComponent, parentComponent)
insertVirtualComponentBefore(st, v, ref, parent, owner, pc) ==
    IF FreeNodes(st.nodes) = {} THEN [st EXCEPT !.full = TRUE, !.err = TRUE]
    ELSE insertedComponent(insertBefore([st EXCEPT !.nodes[NewNode(st.nodes)] =
                                                       [BlankNode EXCEPT !.live = TRUE, !.type = FRAGMENT_NODE,
                                                                         !.comp = v.comp],
                                                   !.created = @ + 1,
                                                   !.insts[v.comp].root = NewNode(st.nodes)],
                                        NewNode(st.nodes), ref, parent),
                           v, NewNode(st.nodes), owner)

\* the root fragment n of the component is in place: it is registered under its key with the owner, and
\* the content of the component is made
insertedComponent(s1, v, n, owner) ==
    IF s1.err THEN s1
    ELSE morphChildren(IF IsKey(v.key) /\ owner # 0
                       THEN [s1 EXCEPT !.insts[owner].ke = MapPut(@, v.key, n), !.nodes[n].key = v.key]
                       ELSE s1,
                       n, v.kids, v.comp)

\* morphEl(fromEl, vFromEl, toEl, toElKey, ownerComponent, parentComponent)
morphEl(st, n, v, pc) ==
    IF sameConstId(v.cid, st.nodes[n].cid) THEN Morphed(st, n, v)
    ELSE IF v.tag # "textarea" THEN morphChildren(morphAttrs(Morphed(st, n, v), n, v), n, v.kids, pc)
    ELSE morphAttrs(Morphed(st, n, v), n, v)

morphChildren(st, from, vs, pc) == morphLoop(st, from, vs, 1, firstChild(st.nodes, from), 0, pc)

\* one turn of the outer loop of morphChildren: i is curToNodeChild, cur is curFromNodeChild and fns is
\* fromNextSibling, a variable of the whole function that keeps its value from turn to turn
morphLoop(st, from, vs, i, cur, fns, pc) ==
    IF st.err THEN st
    ELSE IF i > Len(vs) THEN leftover(st, from, cur, pc)
    ELSE IF vs[i].vt = COMPONENT_NODE THEN componentBranch(st, from, vs, i, cur, fns, pc)
    ELSE IF IsKey(vs[i].key) THEN keyedBranch(st, from, vs, i, cur, fns, pc)
    ELSE unkeyedScan(ScannedTarget(st, "scan", vs[i]), from, vs, i, cur, fns, pc)

\* curToNodeType === COMPONENT_NODE
componentBranch(st, from, vs, i, cur, fns, pc) ==
    LET v == vs[i]
        c == v.comp
        m == MapGet(st.lookup, st.insts[c].id, 0)
        fc == IF cur = 0 THEN 0 ELSE st.nodes[cur].comp
    IN IF m = 0
       THEN morphLoop(insertVirtualComponentBefore(st, v, cur, from, pc, pc), from, vs, i + 1, cur, fns, pc)
       ELSE IF st.insts[m].root = 0 THEN [st EXCEPT !.err = TRUE]
       ELSE IF st.insts[m].root # cur
       THEN IF fc # 0 /\ st.insts[fc].id \notin st.rendered
            THEN morphLoop(destroy(st, fc), from, vs, i, nextSibling(st.nodes, st.insts[fc].root), fns, pc)
            ELSE morphLoop(movedComponent(insertBefore(Placeholder(st, v, i), st.insts[m].root, cur, from), c, v),
                           from, vs, i + 1, cur, fns, pc)
       ELSE morphLoop(IF v.preserve THEN Placeholder(st, v, i) ELSE morphComponent(Placeholder(st, v, i), c, v),
                      from, vs, i + 1, nextSibling(st.nodes, cur), fns, pc)

\* the root of the component is in front of the cursor: its content is morphed unless it is preserved
movedComponent(s1, c, v) == IF s1.err \/ v.preserve THEN s1 ELSE morphComponent(s1, c, v)

\* morphComponent(component, vComponent)
morphComponent(st, c, v) ==
    IF st.insts[c].root = 0 THEN [st EXCEPT !.err = TRUE]
    ELSE morphChildren(st, st.insts[c].root, v.kids, c)

undetach_not(st, m, i) == Revived(st, m, i)
\* detachedByDOMNode.set(matchingFromEl, undefined)
undetach(st, m, i) == Revived([st EXCEPT !.nodes[m].det = DetNone], m, i)

matchingFromEl_none(st, pc, key) == 0
\* matchingFromEl = referenceComponent.___keyedElements[curToNodeKey]
matchingFromEl(st, pc, key) == MapGet(st.insts[pc].ke, key, 0)

singleSwap_never(vs, i, cfk) == FALSE
\* toNextSibling && toNextSibling.___key === curFromNodeKey
singleSwap(vs, i, cfk) == i < Len(vs) /\ vs[i + 1].key = cfk

\* the branch "else if (curToNodeKey)": the target is a keyed element; its key is resolved by the key
\* sequence of the parent component
keyedBranch(st, from, vs, i, cur, fns, pc) ==
    IF pc = 0 THEN [st EXCEPT !.err = TRUE]
    ELSE keyedResolved(st, from, vs, i, cur, fns, pc,
                       nextKey(MapGet(st.ks, st.insts[pc].id, EmptyMap), vs[i].key))

\* nk = <<resolved key, key sequence>>: curFromNodeKey, fromNextSibling and matchingFromEl are read
keyedResolved(st, from, vs, i, cur, fns, pc, nk) ==
    keyedAt([st EXCEPT !.ks = MapPut(@, st.insts[pc].id, nk[2])], from, vs, i, cur, pc, nk[1],
            IF cur = 0 THEN KUndef ELSE st.nodes[cur].key,
            IF cur = 0 THEN fns ELSE nextSibling(st.nodes, cur),
            matchingFromEl(st, pc, nk[1]))

keyedAt(s0, from, vs, i, cur, pc, key, cfk, fns1, m) ==
    IF cfk = key
    THEN \* the elements line up
         IF vs[i].preserve THEN morphLoop(s0, from, vs, i + 1, fns1, fns1, pc)
         ELSE IF ~s0.nodes[cur].vel THEN [s0 EXCEPT !.err = TRUE]
         ELSE IF compareNodeNames(vs[i], s0.nodes[cur])
         THEN morphLoop(morphEl(s0, cur, vs[i], pc), from, vs, i + 1, fns1, fns1, pc)
         ELSE morphLoop(insertVirtualNodeBefore(detachNode(Incompatible(s0, cur, vs[i], i, key, pc), cur, pc),
                                                vs[i], key, cur, from, pc),
                        from, vs, i + 1, fns1, fns1, pc)
    ELSE IF m = 0
    THEN \* no element registered under the key: a new one is inserted in front of the cursor
         morphLoop(insertVirtualNodeBefore(s0, vs[i], key, cur, from, pc), from, vs, i + 1, cur, cur, pc)
    ELSE keyedFound(IF s0.nodes[m].det # DetNone THEN undetach(s0, m, i) ELSE s0,
                    from, vs, i, cur, pc, key, cfk, fns1, m)

\* an element m is registered under the key and is not at the cursor; its detached mark has been cleared
keyedFound(s1, from, vs, i, cur, pc, key, cfk, fns1, m) ==
    IF vs[i].preserve
    THEN morphLoop(insertBefore(s1, m, cur, from), from, vs, i + 1, cur, cur, pc)
    ELSE IF ~s1.nodes[m].vel THEN [s1 EXCEPT !.err = TRUE]
    ELSE IF ~compareNodeNames(s1.nodes[m], vs[i])
    THEN morphLoop(replaced(insertVirtualNodeBefore(Incompatible(s1, m, vs[i], i, key, pc),
                                                    vs[i], key, cur, from, pc), m, pc),
                   from, vs, i + 1, fns1, fns1, pc)
    ELSE IF fns1 = m
    THEN IF singleSwap(vs, i, cfk)
         THEN \* single element swap
              morphLoop(morphMoved(insertBefore(s1, m, cur, from), m, vs[i], pc), from, vs, i + 1, cur, cur, pc)
         ELSE \* single element removal
              morphLoop(morphEl(IF cur # 0 THEN detachNode(s1, cur, pc) ELSE s1, m, vs[i], pc),
                        from, vs, i + 1, nextSibling(s1.nodes, fns1), nextSibling(s1.nodes, fns1), pc)
    ELSE morphLoop(morphMoved(detachedCur(insertAfter(s1, m, cur, from), cur, pc), m, vs[i], pc),
                   from, vs, i + 1, fns1, fns1, pc)

\* the new element is in: the registered one of another tag is detached
replaced(s2, m, pc) == IF s2.err THEN s2 ELSE detachNode(s2, m, pc)

\* the registered element is where it belongs: it is morphed
morphMoved(s2, m, v, pc) == IF s2.err THEN s2 ELSE morphEl(s2, m, v, pc)

\* the registered element is behind the cursor node, which is detached
detachedCur(s2, cur, pc) == IF s2.err \/ cur = 0 THEN s2 ELSE detachNode(s2, cur, pc)

\* the inner loop "while (curFromNodeChild)" for a target that is neither a component nor keyed,
\* followed by the insertion of the target when no real node matched
unkeyedScan(st, from, vs, i, cur, fns, pc) ==
    LET v == vs[i] IN
    IF st.err THEN st
    ELSE IF cur = 0
    THEN morphLoop(insertVirtualNodeBefore(ScannedTarget(st, "append", v), v, v.key, 0, from, pc),
                   from, vs, i + 1, fns, fns, pc)
    ELSE
    LET fns1 == nextSibling(st.nodes, cur)
        fc == st.nodes[cur].comp
        ty == st.nodes[cur].type
    IN
    IF fc # 0
    THEN unkeyedScan(IF st.insts[fc].id \notin st.rendered THEN destroy(ScannedNode(st, "skip", cur), fc)
                     ELSE ScannedNode(st, "skip", cur),
                     from, vs, i, fns1, fns1, pc)
    ELSE IF ty = v.vt /\ ty = ELEMENT_NODE /\ ~st.nodes[cur].vel
    THEN unkeyedScan(ScannedNode(st, "skip", cur), from, vs, i, fns1, fns1, pc)
    ELSE IF ty = v.vt /\ ty = ELEMENT_NODE /\ ~IsKey(st.nodes[cur].vkey) /\ compareNodeNames(st.nodes[cur], v)
    THEN morphLoop(morphEl(ScannedNode(st, "match", cur), cur, v, pc), from, vs, i + 1, fns1, fns1, pc)
    ELSE IF ty = v.vt /\ ty = TEXT_NODE
    THEN morphLoop(IF st.nodes[cur].val # v.val
                   THEN [ScannedNode(st, "match", cur) EXCEPT !.nodes[cur].val = v.val, !.textw = @ + 1]
                   ELSE ScannedNode(st, "match", cur),
                   from, vs, i + 1, fns1, fns1, pc)
    ELSE unkeyedScan(detachNode(ScannedNode(st, "skip", cur), cur, pc), from, vs, i, fns1, fns1, pc)

\* the loop over the real children that are left when every target child has been placed
leftover(st, from, cur, pc) ==
    IF st.err \/ cur = 0 THEN st
    ELSE LET fns1 == nextSibling(st.nodes, cur)
             fc == st.nodes[cur].comp
         IN IF fc # 0
            THEN leftover(IF st.insts[fc].id \notin st.rendered THEN destroy(st, fc) ELSE st, from, fns1, pc)
            ELSE leftover(detachNode(st, cur, pc), from, fns1, pc)

\* morphdom(fromNode, toNode, doc, componentsContext): the walk, then the nodes marked as detached
RECURSIVE processDetached(_, _)
processDetached(st, i) ==
    IF st.err \/ i > Len(st.det) THEN st
    ELSE LET n == st.det[i]
             mark == st.nodes[n].det
             s1 == [st EXCEPT !.nodes[n].det = DetNone]
         IN IF mark = DetNone THEN processDetached(st, i + 1)
            ELSE IF st.nodes[n].comp # 0 THEN processDetached(destroy(s1, st.nodes[n].comp), i + 1)
            ELSE IF HasParent(st.nodes, n)
            THEN processDetached(removeChild(destroyNodeRecursive(s1, n, mark, FALSE), n), i + 1)
            ELSE processDetached(s1, i + 1)

morphdom(st, from, vs, pc) ==
    processDetached(morphChildren([st EXCEPT !.ks = EmptyMap, !.det = <<>>], from, vs, pc), 1)

(* ------------------- component state, input, queueing ------------------ *)
Undef == -1
NoInput == [has |-> FALSE, v |-> <<>>]
Input(v) == [has |-> TRUE, v |-> v]

\* Component.___isDirty
isDirty(c) == c.dirty \/ (c.hasState /\ c.sdirty)

\* Component.___reset and State.___reset
reset(st, h) ==
    [st EXCEPT !.insts[h].dirty = FALSE, !.insts[h].updateQueued = FALSE,
               !.insts[h].sdirty = FALSE, !.insts[h].sold = EmptyMap, !.insts[h].schanges = EmptyMap]

scheduleUpdates_always(st) == [st EXCEPT !.sched = TRUE, !.ticks = @ + 1]
\* update-manager scheduleUpdates: unless a flush is already scheduled, updateUnbatchedComponents is
\* handed to nextTick; ticks counts the callbacks nextTick holds
scheduleUpdates(st) ==
    IF st.sched THEN st ELSE [st EXCEPT !.sched = TRUE, !.ticks = @ + 1]

\* record of the component h being handed to the update manager: early keeps the components that
\* were handed over before their mount
Queued(st, h) == [st EXCEPT !.early = @ \cup (IF st.insts[h].mounted THEN {} ELSE {h})]

queueComponentUpdate_unbatched(st, h) == [scheduleUpdates(Queued(st, h)) EXCEPT !.uq = Append(@, h)]
\* update-manager queueComponentUpdate
queueComponentUpdate(st, h) ==
    IF Len(st.bs) > 0
    THEN [Queued(st, h) EXCEPT !.bs[Len(st.bs)] = Append(@, h)]
    ELSE [scheduleUpdates(Queued(st, h)) EXCEPT !.uq = Append(@, h)]

\* Component.___queueUpdate
queueUpdate(st, h) ==
    IF st.insts[h].updateQueued THEN st
    ELSE queueComponentUpdate([st EXCEPT !.insts[h].updateQueued = TRUE], h)

\* State.___set (forceDirty = false); owed notes the properties changed since the component last
\* rendered or had the handler of the property called
stateSet(st, h, name, value) ==
    IF MapGet(st.insts[h].sraw, name, Undef) = value THEN st
    ELSE LET s1 == IF st.insts[h].sdirty THEN st
                   ELSE queueUpdate([st EXCEPT !.insts[h].sdirty = TRUE,
                                               !.insts[h].sold = st.insts[h].sraw,
                                               !.insts[h].schanges = EmptyMap], h)
         IN [s1 EXCEPT !.insts[h].schanges = MapPut(@, name, value),
                       !.insts[h].sraw = IF value = Undef THEN MapDel(@, name) ELSE MapPut(@, name, value),
                       !.insts[h].owed = @ \cup {name}]

\* Component.setState(name, value)
setState(st, h, name, value) == stateSet([st EXCEPT !.insts[h].hasState = TRUE], h, name, value)

\* checkInputChanged: the input object of the list component carries a freshly built array, the input
\* of the other components carries one number
checkInputChanged(c, old, new) ==
    IF ~old.has THEN TRUE
    ELSE IF c.type = "list" THEN TRUE
    ELSE old.v # new.v

\* Component.___setInput (no onInput hook)
setInput(st, h, new) ==
    LET ch == checkInputChanged(st.insts[h], st.insts[h].input, new)
        s1 == [st EXCEPT !.insts[h].dirty = ch]
        s2 == IF ch THEN queueUpdate(s1, h) ELSE s1
    IN [s2 EXCEPT !.insts[h].input = new]

\* Component.forceUpdate
forceUpdate(st, h) == queueUpdate([st EXCEPT !.insts[h].dirty = TRUE], h)

\* the onCreate hooks of the component classes ("this.state = {...}": the state setter replaces the empty
\* state property by property); the list component has none
onCreate(st, h) ==
    IF st.insts[h].type = "click-count" THEN setState(st, h, "count", 0)
    ELSE IF st.insts[h].type = "stop-watch"
    THEN setState(setState(st, h, "running", 0), h, "elapsedTime", 0)
    ELSE IF st.insts[h].type = "gauge"
    THEN setState(setState(setState(st, h, "count", 0), h, "step", 0), h, "label", 0)
    ELSE IF st.insts[h].type = "meter"
    THEN setState(setState(st, h, "count", 0), h, "step", 0)
    ELSE IF st.insts[h].type = "faulty" THEN setState(st, h, "count", 0)
    ELSE st

\* which state properties have an update_<name> handler method: none of the component classes of the
\* application has one; the gauge component, with the state properties count, step and label, has
\* update_count and update_step; so has the meter component, with the state properties count and step,
\* whose update_count(newValue) does this.state.step = newValue
HasUpdateHandler(type, name) == type \in {"gauge", "meter"} /\ name \in {"count", "step"}

\* the body of the update handler of the property name, called with newValue
handler(st, h, name, newValue) ==
    IF st.insts[h].type = "meter" /\ name = "count" THEN stateSet(st, h, "step", newValue) ELSE st

(* ------------------------------ rendering ------------------------------ *)
\* items of the description handed to the list component
IEl(key, tag, cls, kids) == [k |-> "el", key |-> key, tag |-> tag, cls |-> cls, val |-> "", kids |-> kids, ctype |-> "", inp |-> 0, cid |-> 0]
IText(val) == [k |-> "text", key |-> KUndef, tag |-> "", cls |-> Absent, val |-> val, kids |-> <<>>, ctype |-> "", inp |-> 0, cid |-> 0]
\* an element made by a call of the template's const helper: props.i is its constant id
IConst(tag, cls, kids, cid) == [IEl(KNull, tag, cls, kids) EXCEPT !.cid = cid]
IComp(key, ctype, inp) == [k |-> "comp", key |-> key, tag |-> "", cls |-> Absent, val |-> "", kids |-> <<>>, ctype |-> ctype, inp |-> inp, cid |-> 0]

RECURSIVE renderItems(_, _, _, _)
RECURSIVE renderItem(_, _, _)
RECURSIVE renderer(_, _, _, _, _)
RECURSIVE renderInto(_, _, _, _, _, _)
RECURSIVE renderOut(_, _, _)
RECURSIVE renderWith(_, _, _, _, _, _, _)
RECURSIVE created(_, _, _, _)
RECURSIVE renderId(_, _, _, _, _, _)
RECURSIVE renderNew(_, _, _, _, _)
RECURSIVE renderKey(_, _, _, _, _, _, _)
RECURSIVE renderNk(_, _, _, _, _, _)
RECURSIVE renderAt(_, _, _, _, _)
RECURSIVE renderAuto(_, _, _, _, _)
RECURSIVE template(_, _)
RECURSIVE consItems(_, _, _, _)
RECURSIVE joinItems(_, _)
RECURSIVE elementOf(_, _)

\* the render event of the component h, whose template is about to read its state
Rendered(st, h) == [Emit(st, "render", h) EXCEPT !.insts[h].owed = {}]

\* the render function of a template: <<pass state, virtual children emitted>>; the template of the
\* faulty component throws when its state property count is 1
template(st, h) ==
    LET c == st.insts[h] IN
    IF c.type = "list" THEN renderItems(st, c.input.v, 1, h)
    ELSE IF c.type = "click-count"
    THEN <<st, <<VElement("div", [a \in AttrNames |-> "count"], "0",
                          <<VText(ToString(MapGet(c.sraw, "count", Undef)))>>, 0)>> >>
    ELSE IF c.type = "gauge"
    THEN <<st, <<VElement("div", NoAttrs, "0",
                          <<VText(ToString(MapGet(c.sraw, "count", Undef)) \o "/"
                                  \o ToString(MapGet(c.sraw, "label", Undef)))>>, 0)>> >>
    ELSE IF c.type = "faulty"
    THEN IF MapGet(c.sraw, "count", Undef) = 1 THEN <<[st EXCEPT !.err = TRUE], <<>> >>
         ELSE <<st, <<VElement("div", NoAttrs, "0", <<VText("ok")>>, 0)>> >>
    ELSE IF c.type = "meter"
    THEN <<st, <<VElement("div", NoAttrs, "0",
                          <<VText(ToString(MapGet(c.sraw, "count", Undef)) \o "+"
                                  \o ToString(MapGet(c.sraw, "step", Undef)))>>, 0)>> >>
    ELSE <<st, <<VElement("div", NoAttrs, "0",
                          <<VText("t" \o ToString(MapGet(c.sraw, "elapsedTime", Undef)))>>, 0)>> >>

renderItems(st, items, i, pd) ==
    IF i > Len(items) \/ st.err THEN <<st, <<>> >>
    ELSE consItems(renderItem(st, items[i], pd), items, i, pd)

\* r1 = <<pass state, virtual node>> of the i-th item: the items after it are rendered and joined to it
consItems(r1, items, i, pd) == joinItems(r1, renderItems(r1[1], items, i + 1, pd))

joinItems(r1, r2) == <<r2[1], <<r1[2]>> \o r2[2]>>

renderItem(st, it, pd) ==
    IF it.k = "el"
    THEN elementOf(renderItems(st, it.kids, 1, pd), it)
    ELSE IF it.k = "text" THEN <<st, VText(it.val)>>
    ELSE renderer(st, it.ctype, it.inp, it.key, pd)

\* r = <<pass state, virtual children>>: the element of the item around them
elementOf(r, it) == <<r[1], VElement(it.tag, [a \in AttrNames |-> it.cls], it.key, r[2], it.cid)>>

\* the renderer of createRendererFunc for a nested component tag with an assigned key: the component
\* h is existing or has just been created; it gets its input and is preserved or rendered
renderInto(st, h, existing, id, inp, key) ==
    IF existing /\ ~isDirty(st.insts[h])
    THEN <<reset([st EXCEPT !.rendered = @ \cup {id}], h), VComponent(h, KUndef, TRUE, <<>>)>>
    ELSE renderOut(template([Rendered(st, h) EXCEPT !.rendered = @ \cup {id},
                                                           !.defs = Append(@, h)], h), h, key)

renderOut(t, h, key) == <<t[1], VComponent(h, key, FALSE, t[2])>>

\* the component of the id is looked up, or created when there is none (onCreate runs)
renderWith(st, ctype, inp, key, id, h, existing) ==
    IF ~existing /\ Len(st.insts) >= MaxInst THEN <<[st EXCEPT !.oom = TRUE, !.err = TRUE], VText("")>>
    ELSE IF existing
    THEN renderInto(Note(setInput([st EXCEPT !.insts[h].updateQueued = TRUE], h, Input(<<inp>>)),
                         "rendered", h), h, existing, id, inp, key)
    ELSE renderInto(Note(setInput(onCreate(created(st, id, ctype, h), h), h, Input(<<inp>>)),
                         "rendered", h), h, existing, id, inp, key)

created_unflagged(st, id, ctype, h) ==
    Emit([st EXCEPT !.insts = Append(@, [NewInst(id, ctype) EXCEPT !.nCreate = 1])], "create", h)
\* registry.___createComponent(typeName, id); component.___updateQueued = true; the create event
created(st, id, ctype, h) ==
    Emit([st EXCEPT !.insts = Append(@, [NewInst(id, ctype) EXCEPT !.updateQueued = TRUE,
                                                                   !.nCreate = 1])], "create", h)

\* a component of the id with another type is destroyed first
renderId(st, ctype, inp, key, id, c0) ==
    IF c0 # 0 /\ st.insts[c0].type # ctype
    THEN renderNew(destroy(st, c0), ctype, inp, key, id)
    ELSE IF c0 # 0 THEN renderWith(st, ctype, inp, key, id, c0, TRUE)
    ELSE renderNew(st, ctype, inp, key, id)

renderNew(st, ctype, inp, key, id) == renderWith(st, ctype, inp, key, id, Len(st.insts) + 1, FALSE)

renderKey(st, ctype, inp, key, pd, nk, id) ==
    renderId([st EXCEPT !.cks = MapPut(@, pd, nk[2])], ctype, inp, key, id,
             IF st.isRerender THEN MapGet(st.lookup, id, 0) ELSE 0)

renderNk(st, ctype, inp, key, pd, nk) ==
    renderKey(st, ctype, inp, key, pd, nk, st.insts[pd].id \o "-" \o nk[1])

\* the id is looked up in componentLookup when the pass is a re-render
renderAt(st, ctype, inp, key, id) ==
    renderId(st, ctype, inp, key, id, IF st.isRerender THEN MapGet(st.lookup, id, 0) ELSE 0)

\* ComponentDef.___nextComponentId of the parent: its id, "-c" and the next index of this render
renderAuto(st, ctype, inp, pd, idx) ==
    renderAt([st EXCEPT !.nid = MapPut(@, pd, idx + 1)], ctype, inp, KUndef,
             st.insts[pd].id \o "-c" \o ToString(idx))

\* the keys that begin with "#", and what is left of them without it (key.substring(1))
Unhash == [key \in {"#x"} |-> "x"]

\* the id of a nested component: resolveComponentKey for an assigned key (a key that begins with "#"
\* is the id, any other key goes through the key sequence of the parent), ___nextComponentId of the
\* parent when no key is assigned
renderer(st, ctype, inp, key, pd) ==
    IF key = KUndef THEN renderAuto(st, ctype, inp, pd, MapGet(st.nid, pd, 0))
    ELSE IF key \in DOMAIN Unhash THEN renderAt(st, ctype, inp, key, Unhash[key])
    ELSE renderNk(st, ctype, inp, key, pd, nextKey(MapGet(st.cks, pd, EmptyMap), key))

(* --------------------- init, update, update manager -------------------- *)
RECURSIVE trackComponents(_, _)
\* first loop of initClientRendered: trackComponent for every rendered component, last one first
trackComponents(st, i) ==
    IF i = 0 THEN st
    ELSE trackComponents([st EXCEPT !.lookup = MapPut(@, st.insts[st.defs[i]].id, st.defs[i])], i - 1)

initComponent_silent(st, h) ==
    LET s1 == reset(st, h) IN
    IF s1.insts[h].mounted THEN s1
    ELSE [Emit(s1, "mount", h) EXCEPT !.insts[h].mounted = TRUE, !.insts[h].nMount = Cap(@ + 1)]
\* initComponent
initComponent(st, h) ==
    LET s1 == reset(st, h) IN
    IF s1.insts[h].mounted THEN Emit(s1, "update", h)
    ELSE [Emit(s1, "mount", h) EXCEPT !.insts[h].mounted = TRUE, !.insts[h].nMount = Cap(@ + 1)]

RECURSIVE initLoop(_, _)
initLoop(st, i) == IF i = 0 THEN st ELSE initLoop(initComponent(st, st.defs[i]), i - 1)

\* ComponentsContext.___initComponents (RenderResult.afterInsert)
initComponents(st) ==
    IF st.err THEN st ELSE initLoop(trackComponents(st, Len(st.defs)), Len(st.defs))

morphRoot(s1, vs, h) ==
    IF s1.err THEN s1
    ELSE IF s1.insts[h].root = 0 THEN [s1 EXCEPT !.err = TRUE]
    ELSE morphdom(s1, s1.insts[h].root, vs, h)

\* the rendered tree t = <<pass state, virtual children>> is morphed into the root node of the component
morphRendered(t, h, isList) ==
    morphRoot(IF isList THEN [t[1] EXCEPT !.vtree = t[2], !.morphed = TRUE] ELSE t[1], t[2], h)

\* Component.___rerender: the renderer for the component being re-rendered, then morphdom on its root
rerender(st, h) ==
    morphRendered(template([Rendered(Note(st, "rerender", h), h)
                               EXCEPT !.isRerender = TRUE, !.rendered = {st.insts[h].id},
                                      !.defs = <<h>>, !.cks = EmptyMap, !.nid = EmptyMap], h),
                  h, st.insts[h].type = "list")

\* processUpdateHandlers: TRUE when every changed state property has an update handler
allHandled(c) == \A name \in DOMAIN c.schanges : HasUpdateHandler(c.type, name)

RECURSIVE update(_, _)
RECURSIVE updateComponents(_, _, _)
RECURSIVE scheduleRerender(_, _)
RECURSIVE updateDirty(_, _)
RECURSIVE flushBatch(_, _)

\* the batch of the re-render is taken off the stack; the component is reset unless the pass threw
rerenderDone(s3, depth, h) ==
    IF s3.err THEN [s3 EXCEPT !.bs = SubSeq(@, 1, depth)]
    ELSE reset([s3 EXCEPT !.bs = SubSeq(@, 1, depth)], h)

\* Component.___scheduleRerender: the re-render and the initialisation run inside a batch of their own
scheduleRerender(st, h) ==
    rerenderDone(flushBatch(initComponents(rerender([st EXCEPT !.bs = Append(@, <<>>)], h)), Len(st.bs) + 1),
                 Len(st.bs), h)

updated(s2, h) == IF s2.err THEN s2 ELSE reset(s2, h)

\* the second half of Component.update: a component that is still dirty is re-rendered
updateDirty(s1, h) ==
    updated(IF isDirty(s1.insts[h]) THEN scheduleRerender(s1, h) ELSE s1, h)

RECURSIVE callHandlers(_, _, _, _)
\* handlers.forEach: update_<name>(newValue, oldValue) is called for the changed properties
callHandlers(st, h, names, i) ==
    IF i > Len(names) THEN st
    ELSE callHandlers(handler([st EXCEPT !.log = Append(@, <<"handler", h, names[i],
                                                             st.insts[h].schanges[names[i]],
                                                             MapGet(st.insts[h].sold, names[i], Undef)>>),
                                        !.insts[h].owed = @ \ {names[i]}],
                              h, names[i], st.insts[h].schanges[names[i]]),
                      h, names, i + 1)

\* processUpdateHandlers, and "state.___dirty = false" when it returns true
processUpdateHandlers(st, h) ==
    IF ~allHandled(st.insts[h]) THEN st
    ELSE IF DOMAIN st.insts[h].schanges # {}
    THEN [reset(Emit(callHandlers(st, h, SetToSeq(DOMAIN st.insts[h].schanges), 1), "update", h), h)
             EXCEPT !.insts[h].sdirty = FALSE]
    ELSE [st EXCEPT !.insts[h].sdirty = FALSE]

handlersApply_whenDirty(c) == c.hasState /\ c.sdirty
\* this.___dirty === false && state !== null && state.___dirty === true
handlersApply(c) == ~c.dirty /\ c.hasState /\ c.sdirty

update_clean(st, h) ==
    IF st.err \/ st.insts[h].destroyed THEN st ELSE updated(scheduleRerender(st, h), h)
\* Component.update
update(st, h) ==
    IF st.err \/ st.insts[h].destroyed \/ ~isDirty(st.insts[h]) THEN st
    ELSE updateDirty(IF handlersApply(st.insts[h]) THEN processUpdateHandlers(st, h) ELSE st, h)

\* updateComponents(queue): depth > 0 is the queue of the batch at that depth, depth = 0 the unbatched queue;
\* the queue may grow while it is walked
updateComponents(st, depth, i) ==
    LET q == IF depth = 0 THEN st.uq ELSE st.bs[depth] IN
    IF st.err THEN st
    ELSE IF i > Len(q)
    THEN IF depth = 0 THEN [st EXCEPT !.uq = <<>>] ELSE [st EXCEPT !.bs[depth] = <<>>]
    ELSE updateComponents(update(Note(st, "call", q[i]), q[i]), depth, i + 1)

\* an exception thrown in the finally block takes the place of the pending one
rethrow(s1, thrown) == [s1 EXCEPT !.err = @ \/ thrown]

flushBatch_skip(st, depth) == st
\* the finally block of batchUpdate: the queue of the batch is flushed, also when func has thrown
flushBatch(st, depth) == rethrow(updateComponents([st EXCEPT !.err = FALSE], depth, 1), st.err)

\* updateUnbatchedComponents, the callback handed to nextTick
updateUnbatchedComponents(st) ==
    IF st.uq = <<>> THEN st
    ELSE [updateComponents(st, 0, 1) EXCEPT !.sched = FALSE]

popBatch_returned(s1, depth) == IF s1.err THEN s1 ELSE [s1 EXCEPT !.bs = SubSeq(@, 1, depth - 1)]
\* the finally block of batchUpdate: the batch is taken off the stack
popBatch(s1, depth) == [s1 EXCEPT !.bs = SubSeq(@, 1, depth - 1)]

\* batchUpdate(func) for a func that has already run up to state st inside the batch pushed at depth
endBatch(st, depth) == popBatch(flushBatch(st, depth), depth)

(* --------------------------- handler frame ----------------------------- *)
\* the state a handler starts from: the program state plus the locals of one render / morph pass
\* (keySequences, detachedNodes, the components context) and the record of what the handler did
Begin ==
    [nodes |-> nodes, insts |-> insts, lookup |-> lookup, bs |-> batchStack, uq |-> unbatchedQueue,
     sched |-> updatesScheduled, ticks |-> ticks, ks |-> EmptyMap, det |-> <<>>, rendered |-> {}, defs |-> <<>>,
     cks |-> EmptyMap, nid |-> EmptyMap, isRerender |-> FALSE, log |-> <<>>, ins |-> 0, mov |-> 0, rem |-> 0,
     attrw |-> 0, textw |-> 0, created |-> 0, detn |-> 0, err |-> FALSE, oom |-> FALSE, full |-> FALSE,
     vtree |-> <<>>, morphed |-> FALSE, scan |-> <<>>, watch |-> FALSE, early |-> {}, els |-> <<>>]

RECURSIVE Top(_, _)
\* the topmost ancestor of a node (a child keeps its parent alive through parentNode)
Top(ns, n) == IF ParentOf(ns, n) = 0 THEN n ELSE Top(ns, ParentOf(ns, n))

\* a subtree in document order
Dfs(ns, n) == <<n>> \o DfsSeq(ns, ns[n].kids, 1)
DfsSeq(ns, ks, i) == IF i > Len(ks) THEN <<>> ELSE Dfs(ns, ks[i]) \o DfsSeq(ns, ks, i + 1)

RECURSIVE Dedup(_, _)
Dedup(seq, seen) ==
    IF seq = <<>> THEN <<>>
    ELSE IF Head(seq) \in seen THEN Dedup(Tail(seq), seen)
    ELSE <<Head(seq)>> \o Dedup(Tail(seq), seen \cup {Head(seq)})

RECURSIVE HeldBy(_, _)
\* the nodes the live components hold (root node and keyed elements), component by component
HeldBy(s, h) ==
    IF h > Len(s.insts) THEN <<>>
    ELSE LET c == s.insts[h]
             own == IF c.destroyed THEN <<>>
                    ELSE (IF c.root = 0 THEN <<>> ELSE <<c.root>>)
                         \o [i \in 1..Len(SetToSeq(DOMAIN c.ke)) |-> c.ke[SetToSeq(DOMAIN c.ke)[i]]]
         IN own \o HeldBy(s, h + 1)

RECURSIVE DfsTops(_, _, _)
DfsTops(ns, held, i) ==
    IF i > Len(held) THEN <<>> ELSE Dfs(ns, Top(ns, held[i])) \o DfsTops(ns, held, i + 1)

\* the DOM objects the program can still get at, the document first: everything else is garbage.
\* A DOM object has no name in the program, so the handles are dealt afresh in this order.
Kept(s) == Dedup(Dfs(s.nodes, Container) \o DfsTops(s.nodes, HeldBy(s, 1), 1), {})

Renamed(s, order, n) == IF n = 0 THEN 0 ELSE IndexOf(order, n)

CollectNodes(s, order) ==
    [i \in NodeIds |->
        IF i <= Len(order)
        THEN LET o == s.nodes[order[i]]
             IN [o EXCEPT !.kids = [j \in 1..Len(o.kids) |-> Renamed(s, order, o.kids[j])]]
        ELSE BlankNode]

\* a component object something of the program still refers to
Referenced(s, h) ==
    \/ \E id \in DOMAIN s.lookup : s.lookup[id] = h
    \/ InSeq(h, s.uq)
    \/ \E d \in 1..Len(s.bs) : InSeq(h, s.bs[d])
    \/ \E n \in NodeIds : s.nodes[n].live /\ s.nodes[n].comp = h

\* of a destroyed component nothing refers to, only what it was and which lifecycle events it has had remain
Tombstone(c) ==
    [NewInst(c.id, c.type) EXCEPT !.destroyed = TRUE, !.mounted = c.mounted, !.nCreate = c.nCreate,
                                  !.nMount = c.nMount, !.nDestroy = c.nDestroy]

CollectInsts(s, order) ==
    [h \in 1..Len(s.insts) |->
        LET c == s.insts[h] IN
        IF c.destroyed /\ ~Referenced(s, h) THEN Tombstone(c)
        ELSE IF c.destroyed THEN [c EXCEPT !.ke = EmptyMap]
        ELSE [c EXCEPT !.root = Renamed(s, order, c.root),
                       !.ke = [k \in DOMAIN c.ke |-> Renamed(s, order, c.ke[k])]]]

\* the keyed elements a component held before the handler and still holds, as the same DOM object
KeptKeys(s) ==
    {<<h, k>> \in UNION {{<<x, y>> : y \in DOMAIN insts[x].ke} : x \in Handles(insts)} :
        k \in DOMAIN s.insts[h].ke /\ s.insts[h].ke[k] = insts[h].ke[k]}

RECURSIVE Shows(_, _, _, _, _)
\* [ok, tbl]: the real nodes ks, from the i-th on, are what morphdom makes of the virtual nodes vs: node
\* type, tag name, key as the key sequence tbl of the owning component resolves it, attributes and text
Shows(ns, ks, vs, i, tbl) ==
    IF i > Len(vs) THEN [ok |-> TRUE, tbl |-> tbl]
    ELSE LET n == ks[i]
             v == vs[i]
             no == [ok |-> FALSE, tbl |-> tbl]
         IN IF v.vt = ELEMENT_NODE
            THEN LET nk == IF IsKey(v.key) THEN nextKey(tbl, v.key) ELSE <<KUndef, tbl>>
                     here == /\ ns[n].type = ELEMENT_NODE
                             /\ ns[n].tag = v.tag
                             /\ ns[n].vel
                             /\ ns[n].vkey = v.key
                             /\ ns[n].key = nk[1]
                             /\ ns[n].vattrs = v.attrs
                             /\ ns[n].attrs = [a \in AttrNames |-> RealAttr(v.attrs[a])]
                             /\ Len(ns[n].kids) = Len(v.kids)
                     sub == IF here THEN Shows(ns, ns[n].kids, v.kids, 1, nk[2]) ELSE no
                 IN IF sub.ok THEN Shows(ns, ks, vs, i + 1, sub.tbl) ELSE no
            ELSE IF v.vt = TEXT_NODE
            THEN IF ns[n].type = TEXT_NODE /\ ns[n].val = v.val THEN Shows(ns, ks, vs, i + 1, tbl) ELSE no
            ELSE IF /\ ns[n].type = FRAGMENT_NODE
                    /\ ns[n].comp = v.comp
                    /\ \/ v.preserve
                       \/ /\ Len(ns[n].kids) = Len(v.kids)
                          /\ Shows(ns, ns[n].kids, v.kids, 1, EmptyMap).ok
                 THEN Shows(ns, ks, vs, i + 1, tbl)
                 ELSE no

\* the real child list ks is up to date with the virtual child list vs
UpToDate(ns, ks, vs) == Len(ks) = Len(vs) /\ Shows(ns, ks, vs, 1, EmptyMap).ok

\* what a real child is for the walk: node type, tag name, key (keysByDOMNode), attributes of its
\* virtual element, text
Descr(ns, n) == <<ns[n].type, ns[n].tag, ns[n].key, ns[n].vattrs, ns[n].val>>
DescrSeq(ns, ks) == [i \in 1..Len(ks) |-> Descr(ns, ks[i])]

RECURSIVE VDescr(_, _, _)
\* the same of the virtual children vs from the i-th on, keys resolved by the key sequence tbl
VDescr(vs, i, tbl) ==
    IF i > Len(vs) THEN <<>>
    ELSE LET v == vs[i] IN
         IF v.vt = ELEMENT_NODE
         THEN LET nk == IF IsKey(v.key) THEN nextKey(tbl, v.key) ELSE <<KUndef, tbl>>
              IN <<<<ELEMENT_NODE, v.tag, nk[1], v.attrs, "">>>> \o VDescr(vs, i + 1, nk[2])
         ELSE IF v.vt = TEXT_NODE
         THEN <<<<TEXT_NODE, "", KUndef, NoAttrs, v.val>>>> \o VDescr(vs, i + 1, tbl)
         ELSE <<<<FRAGMENT_NODE, "", v.key, NoAttrs, "">>>> \o VDescr(vs, i + 1, tbl)

\* the real children of the root of the first component before the handler
Was == IF insts = <<>> THEN <<>>
       ELSE IF insts[1].root = 0 THEN <<>>
       ELSE DescrSeq(nodes, nodes[insts[1].root].kids)

\* the keyed nodes the first component has registered before the handler: <<key, node type, tag name>>
Reg == IF insts = <<>> THEN {}
       ELSE {<<k, nodes[insts[1].ke[k]].type, nodes[insts[1].ke[k]].tag>> : k \in DOMAIN insts[1].ke}

\* which of them have no child
Leaves == {i \in 1..Len(Was) : nodes[nodes[insts[1].root].kids[i]].kids = <<>>}

(* ---------------------------- AsyncVDOMBuilder --------------------------- *)
\* new AsyncVDOMBuilder(globalData, parentNode, parentOut): parentOut is 0 for the root builder; ends
\* counts the calls of end() that the builder has had (its ___parent is undefined from the first one on),
\* hasLast tells whether onLast has stored a callback in _last
NewBuilder(parentOut) == [parentOut |-> parentOut, remaining |-> 1, lastCount |-> 0, hasLast |-> FALSE, ends |-> 0]

\* the builders of one render with the State they share (___finished, and the emitter ___events with
\* its "error" listener); nFinish counts the "finish" events emitted, thrown tells whether the last call
\* has thrown to its caller, op is the last call, failed counts the calls of beginAsync that have thrown
NewOut ==
    [bs |-> <<NewBuilder(0)>>, finished |-> FALSE, nFinish |-> 0, listener |-> FALSE, thrown |-> FALSE,
     op |-> <<"new", 1>>, failed |-> 0]

\* ___doFinish
doFinish(o) == [o EXCEPT !.finished = TRUE, !.nFinish = @ + 1]

\* ___emitLast: reads the length of _last, which is undefined until onLast has been called
emitLast(o, b) == IF o.bs[b].hasLast THEN o ELSE [o EXCEPT !.thrown = TRUE]

RECURSIVE handleChildDone(_, _)
\* what end and ___handleChildDone do with the decremented count
afterDecrement(o, b) ==
    IF o.bs[b].remaining = 0
    THEN IF o.bs[b].parentOut # 0 THEN handleChildDone(o, o.bs[b].parentOut) ELSE doFinish(o)
    ELSE IF o.bs[b].remaining - o.bs[b].lastCount = 0 THEN emitLast(o, b)
    ELSE o

\* ___handleChildDone
handleChildDone(o, b) == afterDecrement([o EXCEPT !.bs[b].remaining = @ - 1], b)

\* end
end(o, b) == afterDecrement([o EXCEPT !.bs[b].remaining = @ - 1, !.bs[b].ends = @ + 1], b)

\* EventEmitter.emit("error", e): throws when no listener is attached
emitError(o) == IF o.listener THEN o ELSE [o EXCEPT !.thrown = TRUE]

error_noFinally(o, b) == IF o.listener THEN end(o, b) ELSE emitError(o)
\* error: try { emit("error", e) } finally { end() }
error(o, b) == end(emitError(o), b)

beginAsync_uncounted(o, b, last) ==
    IF o.bs[b].ends > 0 THEN [o EXCEPT !.thrown = TRUE, !.failed = @ + 1]
    ELSE [o EXCEPT !.bs = Append(@, NewBuilder(b))]
\* beginAsync (sync() is never called, ___sync is false): the counts are incremented, then
\* this.___parent.___appendDocumentFragment() throws a TypeError when the builder has ended
beginAsync(o, b, last) ==
    IF o.bs[b].ends > 0
    THEN [o EXCEPT !.bs[b].lastCount = IF last THEN @ + 1 ELSE @, !.bs[b].remaining = @ + 1, !.thrown = TRUE,
                   !.failed = @ + 1]
    ELSE [o EXCEPT !.bs[b].lastCount = IF last THEN @ + 1 ELSE @, !.bs[b].remaining = @ + 1,
                   !.bs = Append(@, NewBuilder(b))]

(* ------------------- appending to a virtual element -------------------- *)
\* a JavaScript value that is null or a string
Null == [null |-> TRUE, s |-> ""]
Str(s) == [null |-> FALSE, s |-> s]

\* no virtual element has been constructed
NoElement ==
    [made |-> FALSE, nodeName |-> "", value |-> Null, type |-> Null, valueInternal |-> Null,
     preserveTextAreaValue |-> FALSE, childCount |-> 0, kids |-> <<>>, texts |-> <<>>, thrown |-> FALSE,
     last |-> ""]

\* new VElement(tagName, attrs, ...): value and type are the attributes of these names; kids are the
\* children linked from ___firstChildInternal, texts are the values of the text nodes appended so far,
\* last is the kind of the child of the last ___appendChild call and thrown whether that call threw
NewVElement(tagName, value, type) ==
    [NoElement EXCEPT !.made = TRUE, !.nodeName = tagName, !.value = value, !.type = type]

\* the virtual nodes that are appended: text nodes, components and fragments with and without the
\* preserve flag, elements and comments
Children ==
    {[kind |-> "text", nodeValue |-> v, preserve |-> FALSE] : v \in {"", "a", "b"}}
    \cup {[kind |-> k, nodeValue |-> "", preserve |-> p] : k \in {"component", "fragment"}, p \in BOOLEAN}
    \cup {[kind |-> k, nodeValue |-> "", preserve |-> FALSE] : k \in {"element", "comment"}}

appendChild_prepend(el, child) ==
    IF el.nodeName = "textarea"
    THEN IF child.kind = "text"
         THEN [el EXCEPT !.childCount = @ + 1, !.valueInternal = Str(child.nodeValue \o @.s),
                         !.texts = Append(@, child.nodeValue), !.last = child, !.thrown = FALSE]
         ELSE IF child.preserve
         THEN [el EXCEPT !.childCount = @ + 1, !.preserveTextAreaValue = TRUE, !.last = child, !.thrown = FALSE]
         ELSE [el EXCEPT !.childCount = @ + 1, !.last = child, !.thrown = TRUE]
    ELSE [el EXCEPT !.childCount = @ + 1, !.kids = Append(@, child), !.last = child, !.thrown = FALSE,
                    !.texts = IF child.kind = "text" THEN Append(@, child.nodeValue) ELSE @]
\* VNode.___appendChild: (this.___valueInternal || "") is the empty string for null
appendChild(el, child) ==
    IF el.nodeName = "textarea"
    THEN IF child.kind = "text"
         THEN [el EXCEPT !.childCount = @ + 1, !.valueInternal = Str(@.s \o child.nodeValue),
                         !.texts = Append(@, child.nodeValue), !.last = child, !.thrown = FALSE]
         ELSE IF child.preserve
         THEN [el EXCEPT !.childCount = @ + 1, !.preserveTextAreaValue = TRUE, !.last = child, !.thrown = FALSE]
         ELSE [el EXCEPT !.childCount = @ + 1, !.last = child, !.thrown = TRUE]
    ELSE [el EXCEPT !.childCount = @ + 1, !.kids = Append(@, child), !.last = child, !.thrown = FALSE,
                    !.texts = IF child.kind = "text" THEN Append(@, child.nodeValue) ELSE @]

\* the ___value getter of VElement
valueOf(el) ==
    IF ~el.valueInternal.null THEN el.valueInternal.s
    ELSE IF ~el.value.null THEN el.value.s
    ELSE IF el.type \in {Str("checkbox"), Str("radio")} THEN "on"
    ELSE ""

(* ----------------------- the tree of virtual nodes ----------------------- *)
\* the final child count of a node that has none declared (null or undefined) and of a text node (-1)
NoCount == -1

\* VNode.___VNode: a virtual node with its links (0 is null); kids lists the children in the order
\* in which they were appended
NewVNode(kind, finalChildCount) ==
    [kind |-> kind, finalChildCount |-> finalChildCount, childCount |-> 0, firstChildInternal |-> 0,
     lastChild |-> 0, parentNode |-> 0, nextSiblingInternal |-> 0, kids |-> <<>>]

\* the tree under construction: node 1 is the document fragment of the builder; ret is the node the
\* last call returned, op is the last call and walk is the result of the last walk over children;
\* stack and parent are ___stack and ___parent of the builder (0 is undefined), ended is set by end(),
\* thrown tells whether the last call threw, before[i] is the insertion point there was when the
\* i-th node of the stack was pushed
NewVDom ==
    [ns |-> <<NewVNode("docfrag", NoCount)>>, ret |-> 1, op |-> <<"new", 1, NoCount>>, walk |-> <<>>,
     stack |-> <<1>>, parent |-> 1, before |-> <<0>>, ended |-> FALSE, thrown |-> FALSE]

appendLinked_front(ns, p, child) ==
    [Append(ns, [child EXCEPT !.parentNode = p, !.nextSiblingInternal = ns[p].firstChildInternal])
        EXCEPT ![p].childCount = @ + 1,
               ![p].kids = Append(@, Len(ns) + 1),
               ![p].firstChildInternal = Len(ns) + 1,
               ![p].lastChild = IF ns[p].lastChild = 0 THEN Len(ns) + 1 ELSE @]
\* VNode.___appendChild to a node that is not a textarea: the child is linked after the last child
appendLinked(ns, p, child) ==
    IF ns[p].lastChild # 0
    THEN [Append(ns, [child EXCEPT !.parentNode = p])
             EXCEPT ![p].childCount = @ + 1,
                    ![p].kids = Append(@, Len(ns) + 1),
                    ![ns[p].lastChild].nextSiblingInternal = Len(ns) + 1,
                    ![p].lastChild = Len(ns) + 1]
    ELSE [Append(ns, [child EXCEPT !.parentNode = p])
             EXCEPT ![p].childCount = @ + 1,
                    ![p].kids = Append(@, Len(ns) + 1),
                    ![p].firstChildInternal = Len(ns) + 1,
                    ![p].lastChild = Len(ns) + 1]

RECURSIVE finishChild(_, _)
finishChild_here(ns, n) == n
\* VNode.___finishChild
finishChild(ns, n) ==
    IF ns[n].childCount = ns[n].finalChildCount /\ ns[n].parentNode # 0
    THEN finishChild(ns, ns[n].parentNode)
    ELSE n

RECURSIVE vFirstChild(_, _)
RECURSIVE vNextSibling(_, _)
\* the nested first child, or the next sibling of the document fragment f when it has none
orNextSibling(ns, f, nested) == IF nested # 0 THEN nested ELSE vNextSibling(ns, f)

\* the ___firstChild getter of VNode
vFirstChild(ns, n) ==
    IF ns[n].firstChildInternal # 0 /\ ns[ns[n].firstChildInternal].kind = "docfrag"
    THEN orNextSibling(ns, ns[n].firstChildInternal, vFirstChild(ns, ns[n].firstChildInternal))
    ELSE ns[n].firstChildInternal

vNextSibling_internal(ns, n) == ns[n].nextSiblingInternal
\* the ___nextSibling getter of VNode
vNextSibling(ns, n) ==
    IF ns[n].nextSiblingInternal # 0
    THEN IF ns[ns[n].nextSiblingInternal].kind = "docfrag"
         THEN orNextSibling(ns, ns[n].nextSiblingInternal, vFirstChild(ns, ns[n].nextSiblingInternal))
         ELSE ns[n].nextSiblingInternal
    ELSE IF ns[n].parentNode # 0 /\ ns[ns[n].parentNode].kind = "docfrag"
    THEN vNextSibling(ns, ns[n].parentNode)
    ELSE 0

beginNode_unmoved(b, child, pushToStack) ==
    IF b.parent = 0 THEN [b EXCEPT !.thrown = TRUE]
    ELSE IF pushToStack
    THEN [b EXCEPT !.ns = appendLinked(b.ns, b.parent, child), !.stack = Append(@, Len(b.ns) + 1),
                   !.before = Append(@, b.parent), !.thrown = FALSE]
    ELSE [b EXCEPT !.ns = appendLinked(b.ns, b.parent, child), !.thrown = FALSE]
\* AsyncVDOMBuilder.___beginNode; this.___parent.___appendChild throws a TypeError when ___parent is
\* undefined
beginNode(b, child, pushToStack) ==
    IF b.parent = 0 THEN [b EXCEPT !.thrown = TRUE]
    ELSE IF pushToStack
    THEN [b EXCEPT !.ns = appendLinked(b.ns, b.parent, child), !.stack = Append(@, Len(b.ns) + 1),
                   !.before = Append(@, b.parent), !.parent = Len(b.ns) + 1, !.thrown = FALSE]
    ELSE [b EXCEPT !.ns = appendLinked(b.ns, b.parent, child), !.thrown = FALSE]

\* stack[stack.length - 1] after stack.pop()
popped(stack) == IF stack = <<>> THEN <<>> ELSE SubSeq(stack, 1, Len(stack) - 1)
stackTop(stack) == IF stack = <<>> THEN 0 ELSE stack[Len(stack)]

\* AsyncVDOMBuilder.endElement
endElement(b) ==
    [b EXCEPT !.stack = popped(@), !.before = popped(@), !.parent = stackTop(popped(b.stack)), !.thrown = FALSE]

RECURSIVE walkFrom(_, _, _)
\* var child = parent.___firstChild; while (child) { ...; child = child.___nextSibling }: the nodes
\* visited; a walk longer than the tree is cut off and ends with 0
walkFrom(ns, n, fuel) ==
    IF n = 0 THEN <<>>
    ELSE IF fuel = 0 THEN <<0>>
    ELSE <<n>> \o walkFrom(ns, vNextSibling(ns, n), fuel - 1)

\* the handler returns (or throws, err): its effects become the program state
Commit(s, kind, h) ==
    /\ ~s.oom
    /\ Len(Kept(s)) <= MaxNodes
    /\ nodes' = CollectNodes(s, Kept(s))
    /\ insts' = CollectInsts(s, Kept(s))
    /\ lookup' = s.lookup
    /\ batchStack' = s.bs
    /\ unbatchedQueue' = s.uq
    /\ updatesScheduled' = s.sched
    /\ ticks' = s.ticks
    /\ out' = out
    /\ vel' = vel
    /\ vdom' = vdom
    /\ keyseq' = keyseq
    /\ attrEl' = attrEl
    /\ state' = state
    /\ component' = component
    /\ pass' = [kind |-> kind, h |-> h, log |-> s.log, ins |-> s.ins, mov |-> s.mov, rem |-> s.rem,
                attrw |-> s.attrw, textw |-> s.textw, created |-> s.created, detn |-> s.detn, err |-> s.err,
                full |-> s.full,
                scan |-> [i \in 1..Len(s.scan) |->
                            [s.scan[i] EXCEPT !.n = 0, !.pc = 0,
                                              !.kept = s.scan[i].h # 0 /\ s.insts[s.scan[i].h].root = s.scan[i].n,
                                              !.after = IF s.scan[i].h # 0 /\ s.scan[i].n # 0
                                                        THEN Content(s.nodes, s.scan[i].n) ELSE <<>>,
                                              !.par = IF s.scan[i].n # 0 THEN ParentOf(s.nodes, s.scan[i].n)
                                                      ELSE 0,
                                              !.reg = s.scan[i].pc # 0 /\ s.scan[i].n # 0
                                                      /\ MapGet(s.insts[s.scan[i].pc].ke, s.scan[i].key, 0)
                                                         = s.scan[i].n,
                                              !.pos = IF s.scan[i].n # 0 /\ HasParent(s.nodes, s.scan[i].n)
                                                      THEN IndexOf(s.nodes[ParentOf(s.nodes, s.scan[i].n)].kids,
                                                                   s.scan[i].n)
                                                      ELSE 0,
                                              !.attached = s.scan[i].n # 0 /\ s.nodes[s.scan[i].n].live
                                                           /\ Top(s.nodes, s.scan[i].n) = Container]],
                early |-> s.early,
                els |-> [i \in 1..Len(s.els) |->
                           [s.els[i] EXCEPT !.n = 0, !.after = Content(s.nodes, s.els[i].n),
                                            !.got = Shallow(s.nodes, s.els[i].n)]],
                vtree |-> s.vtree, morphed |-> s.morphed, kept |-> KeptKeys(s), was |-> Was,
                leaves |-> Leaves,
                same |-> (s.morphed /\ insts # <<>> /\ Was # <<>>
                          /\ UpToDate(nodes, nodes[insts[1].root].kids, s.vtree)),
                alive |-> {x \in Handles(insts) : insts[x].mounted /\ ~insts[x].destroyed},
                reg |-> Reg,
                dead |-> {x \in Handles(insts) : insts[x].destroyed},
                queued |-> {x \in Handles(insts) : insts[x].updateQueued}]

NoPass ==
    [kind |-> "init", h |-> 0, log |-> <<>>, ins |-> 0, mov |-> 0, rem |-> 0, attrw |-> 0, textw |-> 0,
     created |-> 0, detn |-> 0, err |-> FALSE, full |-> FALSE, scan |-> <<>>, early |-> {}, els |-> <<>>, vtree |-> <<>>,
     morphed |-> FALSE, kept |-> {},
     was |-> <<>>, leaves |-> {}, same |-> FALSE, alive |-> {}, reg |-> {},
     dead |-> {}, queued |-> {}]

(* ------------------------ the state of a component --------------------- *)
StateKeys == {"a", "b"}
StateValues == {0, 1}
\* the objects handed to the state setter
NewStates == UNION {[ks -> StateValues] : ks \in SUBSET StateKeys}

\* extend({}, rawState): the object that becomes the live one is a new object; of the two objects
\* objs that a State can refer to, the one that ___raw does not refer to is free when ___old is null
extend_same(s) == s.raw
extend(s) == IF s.raw = 1 THEN 2 ELSE 1

\* State.___set(name, value, shouldEnsure, forceDirty); queued counts the calls of ___queueUpdate, was
\* notes the values that ___raw held at the first change
set(s, name, value, forceDirty) ==
    IF ~forceDirty /\ MapGet(s.objs[s.raw], name, Undef) = value THEN s
    ELSE LET s0 == IF forceDirty THEN [s EXCEPT !.forced = @ \cup {name}] ELSE s
             s1 == IF ~s0.dirty
                   THEN [s0 EXCEPT !.dirty = TRUE, !.old = s0.raw, !.raw = extend(s0),
                                   !.objs[extend(s0)] = s0.objs[s0.raw], !.changes = EmptyMap,
                                   !.queued = TRUE, !.was = s0.objs[s0.raw]]
                   ELSE s0
         IN [s1 EXCEPT !.changes = MapPut(@, name, value),
                       !.objs[s1.raw] = IF value = Undef THEN MapDel(@, name) ELSE MapPut(@, name, value)]

RECURSIVE setEach(_, _, _)
\* the calls of ___set of one loop of ___replace, for the keys ks with the values of newState
setEach(s, ks, newState) ==
    IF ks = {} THEN s
    ELSE setEach(set(s, CHOOSE k \in ks : TRUE, MapGet(newState, CHOOSE k \in ks : TRUE, Undef), FALSE),
                 ks \ {CHOOSE k \in ks : TRUE}, newState)

\* State.___replace(newState): the keys of rawState (as it is at entry) that newState lacks are set to
\* undefined, then every key of newState is set
replace(s, newState) ==
    setEach(setEach(s, DOMAIN s.objs[s.raw] \ DOMAIN newState, newState), DOMAIN newState, newState)

\* new State(component)
NewState ==
    [objs |-> <<EmptyMap, EmptyMap>>, raw |-> 1, old |-> 0, dirty |-> FALSE, changes |-> EmptyMap,
     forced |-> {}, queued |-> FALSE, was |-> EmptyMap, sets |-> 0]

(* ------------------------ the input of a component --------------------- *)
InputKeys == {"a", "b"}
\* the values of an input property: undefined, or one of two values
InputValues == {Undef, 0, 1}
\* an input is null or undefined (nullish), or an object with some of the keys
NullInput == [nullish |-> TRUE, props |-> EmptyMap]
Inputs == {NullInput} \cup {[nullish |-> FALSE, props |-> m] : m \in UNION {[ks -> InputValues] : ks \in SUBSET InputKeys}}

\* Object.keys(input).length
keysLength(input) == Cardinality(DOMAIN input.props)

\* checkInputChanged(existingComponent, oldInput, newInput) for inputs given by their own properties:
\* two objects made apart are not the same object, oldInput[key] of a key that oldInput lacks is undefined
checkInputChanged_props(oldInput, newInput) ==
    IF oldInput.nullish /\ newInput.nullish THEN FALSE
    ELSE IF oldInput.nullish \/ newInput.nullish THEN TRUE
    ELSE IF keysLength(oldInput) # keysLength(newInput) THEN TRUE
    ELSE \E key \in DOMAIN oldInput.props : oldInput.props[key] # MapGet(newInput.props, key, Undef)

\* new Component(id): no input yet, not dirty, not queued
NewComponent ==
    [input |-> NullInput, dirty |-> FALSE, updateQueued |-> FALSE, queuedNow |-> FALSE,
     oldInput |-> NullInput, op |-> "new"]

\* Component.___setInput(newInput) of a component without onInput, and Component.___queueUpdate with
\* the call of queueComponentUpdate noted
setInput_props(c, newInput) ==
    [c EXCEPT !.dirty = checkInputChanged_props(c.input, newInput),
              !.updateQueued = @ \/ checkInputChanged_props(c.input, newInput),
              !.queuedNow = ~c.updateQueued /\ checkInputChanged_props(c.input, newInput),
              !.input = newInput, !.oldInput = c.input, !.op = "setInput"]

\* the page before anything is rendered: an empty container, no component, nothing queued
Init ==
    /\ nodes = [n \in NodeIds |-> IF n = Container
                                  THEN [BlankNode EXCEPT !.live = TRUE, !.type = ELEMENT_NODE, !.tag = "body"]
                                  ELSE BlankNode]
    /\ insts = <<>>
    /\ lookup = EmptyMap
    /\ batchStack = <<>>
    /\ unbatchedQueue = <<>>
    /\ updatesScheduled = FALSE
    /\ ticks = 0
    /\ pass = NoPass
    /\ out = NewOut
    /\ vel = NoElement
    /\ vdom = NewVDom
    /\ keyseq = NewKeySequence
    /\ attrEl = NoAttrEl
    /\ state = NewState
    /\ component = NewComponent

(* ------------------------------- actions ------------------------------- *)
Root == 1

\* template.renderSync(input).appendTo(container): the top-level renderer call, the morph of
\* AsyncVDOMBuilder.___getNode into the container, and afterInsert
\* the tree rendered for the page is put into the container and its components are initialised
mountRendered(r) ==
    initComponents(morphdom([r[1] EXCEPT !.vtree = r[2], !.morphed = TRUE], Container,
                            <<VComponent(Root, KNull, FALSE, r[2])>>, 0))

MountOp(s, t) ==
    mountRendered(template([Emit(setInput(onCreate(Emit([s EXCEPT !.insts = <<[NewInst("c0", "list")
                                                                EXCEPT !.updateQueued = TRUE,
                                                                       !.nCreate = 1]>>],
                                                        "create", Root), Root),
                                          Root, Input(t)), "render", Root)
                               EXCEPT !.rendered = {"c0"}, !.defs = <<Root>>], Root))

Mount(t) ==
    /\ insts = <<>>
    /\ Commit(MountOp(Begin, t), "mount", Root)

\* component.input = t; component.update(): a synchronous re-render of the list component
Rerender(t) ==
    /\ insts # <<>>
    /\ ~InSeq(Root, unbatchedQueue)
    /\ Commit(update(setInput(Begin, Root, Input(t)), Root), "rerender", Root)

\* nextTick runs a callback it holds: updateUnbatchedComponents
Tick ==
    /\ ticks > 0
    /\ Commit(updateUnbatchedComponents([Begin EXCEPT !.ticks = @ - 1]), "tick", 0)

\* a click on the button of a click-count component: increment() does this.state.count++
increment(st, h) == Note(stateSet(st, h, "count", MapGet(st.insts[h].sraw, "count", 0) + 1), "set", h)

Increment(h) ==
    /\ insts[h].type = "click-count"
    /\ ~insts[h].destroyed
    /\ MapGet(insts[h].sraw, "count", 0) < MaxCount
    /\ Commit(increment(Begin, h), "increment", h)

\* component.destroy() called by the application, on any component it has got hold of
Destroy(h) ==
    Commit(destroy(Begin, h), "destroy", h)

\* one mutation made by the function handed to batchUpdate: a state property is set, or the input
\* is replaced by a different one
mutate(st, h, op) ==
    IF op = "state" THEN increment(st, h)
    ELSE Note(setInput(st, h, Input(<<1 - st.insts[h].input.v[1]>>)), "set", h)

RECURSIVE mutations(_, _, _, _)
mutations(st, h, ops, i) == IF i > Len(ops) THEN st ELSE mutations(mutate(st, h, ops[i]), h, ops, i + 1)

\* the mutations a batch makes to one component
BatchOps == {<<"state">>, <<"input">>, <<"input", "state">>}
StateOps(ops) == Cardinality({i \in 1..Len(ops) : ops[i] = "state"})

\* batchUpdate(func), func mutating the click-count component h
Batch(h, ops) ==
    /\ insts[h].type = "click-count"
    /\ ~insts[h].destroyed
    /\ insts[h].mounted
    /\ MapGet(insts[h].sraw, "count", 0) + StateOps(ops) <= MaxCount
    /\ Commit(endBatch(mutations([Begin EXCEPT !.bs = Append(@, <<>>)], h, ops, 1), Len(batchStack) + 1),
              "batch", h)

(* --------------------- reconciling lists of elements -------------------- *)
\* all arrangements of at most n distinct members of S
RECURSIVE Arrangements(_, _)
Arrangements(S, n) ==
    IF n = 0 THEN {<<>>}
    ELSE {<<>>} \cup UNION {{<<x>> \o t : t \in Arrangements(S \ {x}, n - 1)} : x \in S}

\* the children the list component is asked to show: keyed elements, one key also with another tag,
\* an element without key and a text
MorphItems ==
    {IEl("a", "div", "x", <<>>), IEl("b", "div", "x", <<>>), IEl("b", "span", "x", <<>>),
     IEl(KNull, "div", "x", <<>>), IText("s")}
MorphTrees == Arrangements(MorphItems, MaxKids)

NextMorph ==
    \/ \E t \in MorphTrees : Mount(t)
    \/ \E t \in MorphTrees : Rerender(t)
    \/ Tick

SpecMorph == Init /\ [][NextMorph]_vars

(* ------------------- reconciling lists of keyed elements ---------------- *)
KeyedItems ==
    {IEl("a", "div", "x", <<>>), IEl("b", "div", "x", <<>>), IEl("c", "div", "x", <<>>),
     IEl("b", "span", "x", <<>>)}
KeyedTrees == Arrangements(KeyedItems, MaxKids)

NextKeyed ==
    \/ \E t \in KeyedTrees : Mount(t)
    \/ \E t \in KeyedTrees : Rerender(t)
    \/ Tick

SpecKeyed == Init /\ [][NextKeyed]_vars

(* ------------------------- a page with components ---------------------- *)
ItemA == IEl("a", "div", "x", <<>>)
ItemC == IEl("c", "div", "x", <<>>)
ClickCount(inp) == IComp("k", "click-count", inp)
\* the children the list component is asked to show: two keyed elements, with a click-count component
\* before, between and after them, with another input, inside a keyed element between them, alone,
\* and a stop-watch in its place; and a click-count component inside a keyed element whose sibling is then
\* shown alone with another tag name
CompTrees ==
    {<<>>, <<ItemA, ItemC>>,
     <<ClickCount(0)>>, <<IComp("k", "stop-watch", 0)>>,
     <<ClickCount(0), ItemA, ItemC>>, <<ItemA, ClickCount(0), ItemC>>,
     <<ItemA, ItemC, ClickCount(0)>>, <<ItemA, ItemC, ClickCount(1)>>,
     <<ItemA, IEl("b", "div", "x", <<ClickCount(0)>>), ItemC>>,
     <<IEl("a", "div", "x", <<ClickCount(0)>>), ItemC>>, <<IEl("c", "span", "x", <<>>)>>}

Next ==
    \/ \E t \in CompTrees : Mount(t)
    \/ \E t \in CompTrees : Rerender(t)
    \/ Tick
    \/ \E h \in Handles(insts) : Increment(h)
    \/ \E h \in Handles(insts) : Destroy(h)
    \/ \E h \in Handles(insts), ops \in BatchOps : Batch(h, ops)

Spec == Init /\ [][Next]_vars

(* ------------------- the update queues: tick and batches ---------------- *)
Counter(key, inp) == IComp(key, "click-count", inp)
\* the children the list component is asked to show: two click-count components, the first also with
\* another input
QueueTrees ==
    {<<Counter("k", 0), Counter("j", 0)>>, <<Counter("k", 1), Counter("j", 0)>>}

\* the click-count components a click can reach
Counters == {h \in Handles(insts) : insts[h].type = "click-count" /\ insts[h].mounted /\ ~insts[h].destroyed}

\* one mutation <<component, what, value>>: a click on a click-count component, or a new input assigned
\* to the list component (component.input = value: the setter, no call of update())
Mutations(trees) ==
    {<<h, "state", <<>> >> : h \in {x \in Counters : MapGet(insts[x].sraw, "count", 0) < MaxCount}}
    \cup {<<Root, "input", t>> : t \in {x \in trees : insts # <<>>}}

mutation(st, m) ==
    IF st.err THEN st
    ELSE IF m[2] = "state" THEN increment(st, m[1])
    ELSE IF m[2] = "key" THEN Note(setState(st, m[1], m[3][1], m[3][2]), "set", m[1])
    ELSE IF m[2] = "own" THEN Note(setInput(st, m[1], Input(<<m[3][2]>>)), "set", m[1])
    ELSE IF m[2] = "force" THEN Note(forceUpdate(st, m[1]), "set", m[1])
    ELSE IF m[2] = "throw" THEN [st EXCEPT !.err = TRUE]
    ELSE Note(setInput(st, m[1], Input(m[3])), "set", m[1])

\* a mutation made outside any batch
Mutate(m) == Commit(mutation(Begin, m), "mutate", m[1])

\* batchStack.push(batch)
pushBatch(st) == [st EXCEPT !.bs = Append(@, <<>>)]

\* the end of a batchUpdate scope at the given depth, noted in the log of the handler
exitBatch(st, depth) == Note(endBatch(st, depth), "exit", depth)

\* batchUpdate(function () { m1; batchUpdate(function () { m2 }) })
nestedLast(st, m1, m2) ==
    exitBatch(exitBatch(mutation(pushBatch(mutation(pushBatch(st), m1)), m2), Len(st.bs) + 2), Len(st.bs) + 1)

\* batchUpdate(function () { batchUpdate(function () { m2 }); m1 })
nestedFirst(st, m1, m2) ==
    exitBatch(mutation(exitBatch(mutation(pushBatch(pushBatch(st)), m2), Len(st.bs) + 2), m1), Len(st.bs) + 1)

\* two batchUpdate scopes, one inside the other: m1 is made in the outer, m2 in the inner one
Nested(m1, m2, innerLast) ==
    /\ m1[1] # m2[1]
    /\ Commit(IF innerLast THEN nestedLast(Begin, m1, m2) ELSE nestedFirst(Begin, m1, m2),
              IF innerLast THEN "nestedLast" ELSE "nestedFirst", m1[1])

\* batchUpdate(function () { m; component.destroy() }) for the component h
BatchDestroy(m, h) ==
    Commit(exitBatch(destroy(mutation(pushBatch(Begin), m), h), Len(batchStack) + 1), "batchDestroy", h)

NextQueue ==
    \/ \E t \in QueueTrees : Mount(t)
    \/ \E m \in Mutations(QueueTrees) : Mutate(m)
    \/ Tick
    \/ \E m1, m2 \in Mutations(QueueTrees), innerLast \in BOOLEAN : Nested(m1, m2, innerLast)

SpecQueue == Init /\ [][NextQueue]_vars

(* ------------------ components destroyed while they wait ---------------- *)
\* the children the list component is asked to show: a click-count component before and after two
\* keyed elements, also with another input
SkipTrees ==
    {<<Counter("k", 0), ItemA, ItemC>>, <<ItemA, ItemC, Counter("k", 0)>>, <<ItemA, ItemC, Counter("k", 1)>>}

NextSkip ==
    \/ \E t \in SkipTrees : Mount(t)
    \/ \E t \in SkipTrees : Rerender(t)
    \/ \E m \in Mutations(SkipTrees) : Mutate(m)
    \/ Tick
    \/ \E h \in Handles(insts) : Destroy(h)
    \/ \E m \in Mutations(SkipTrees) : \E h \in Handles(insts) : BatchDestroy(m, h)

SpecSkip == Init /\ [][NextSkip]_vars

(* --------------------- destroying a tree of components ------------------ *)
\* the children the list component is asked to show: a click-count component next to a keyed element,
\* inside a keyed element, two click-count components, and none
DestroyTrees ==
    {<<ItemA>>, <<Counter("k", 0), ItemA>>, <<IEl("b", "div", "x", <<Counter("k", 0)>>), ItemC>>,
     <<Counter("k", 0), Counter("j", 0)>>}

\* component.subscribeTo(target).on(...): the component gets a subscription tracker
Subscribe(h) ==
    /\ ~insts[h].destroyed
    /\ ~insts[h].subs
    /\ Commit([Begin EXCEPT !.insts[h].subs = TRUE], "subscribe", h)

NextDestroy ==
    \/ \E t \in DestroyTrees : Mount(t)
    \/ \E t \in DestroyTrees : Rerender(t)
    \/ \E h \in Handles(insts) : Subscribe(h)
    \/ \E h \in Handles(insts) : Destroy(h)

SpecDestroy == Init /\ [][NextDestroy]_vars

(* ----------------------- the ids of nested components ------------------- *)
\* a click-count component tag without a key
Anon(inp) == IComp(KUndef, "click-count", inp)

\* the children the list component is asked to show: two components without key, with the same key,
\* with a key and without, with the same key that begins with "#", and one without key next to one
\* with the key c0
IdTrees ==
    {<<Anon(0), Anon(0)>>, <<Counter("k", 0), Counter("k", 0)>>, <<Counter("k", 0), Anon(0)>>,
     <<Counter("#x", 0), Counter("#x", 0)>>, <<Anon(0), Counter("c0", 0)>>}

NextIds ==
    \/ \E t \in IdTrees : Mount(t)
    \/ \E t \in IdTrees : Rerender(t)
    \/ \E h \in Handles(insts) : Destroy(h)

SpecIds == Init /\ [][NextIds]_vars

(* ------------------------- update handlers ------------------------------ *)
\* the list component shows one gauge component
GaugeTrees == {<<IComp("g", "gauge", 0)>>}

Gauges == {h \in Handles(insts) : insts[h].type = "gauge" /\ insts[h].mounted /\ ~insts[h].destroyed}

\* what the page does to a gauge: this.state.<name> = value, this.input = value, this.forceUpdate()
GaugeMutations ==
    {<<h, "key", <<"count", value>> >> : h \in Gauges, value \in 0..MaxCount}
    \cup {<<h, "key", <<name, value>> >> : h \in Gauges, name \in {"step", "label"}, value \in {0, 1}}
    \cup {<<h, "own", <<"input", value>> >> : h \in Gauges, value \in {0, 1}}
    \cup {<<h, "force", <<"", 0>> >> : h \in Gauges}

\* the list component shows one meter component
MeterTrees == {<<IComp("g", "meter", 0)>>}

Meters == {h \in Handles(insts) : insts[h].type = "meter" /\ insts[h].mounted /\ ~insts[h].destroyed}

\* what the page does to a meter: this.state.<name> = value
MeterMutations == {<<h, "key", <<name, value>> >> : h \in Meters, name \in {"count", "step"}, value \in 0..2}

NextMeter ==
    \/ \E t \in MeterTrees : Mount(t)
    \/ \E m \in MeterMutations : Mutate(m)
    \/ Tick

\* a callback handed to nextTick is run: WF_vars(Tick), with ENABLED <<Tick>>_vars written out (a tick
\* can be taken exactly when nextTick holds a callback, and taking it changes ticks or the queue)
TickFair == []<>(ticks = 0) \/ []<><<Tick>>_vars

SpecMeter == Init /\ [][NextMeter]_vars /\ TickFair

(* ---------------------- an update that throws ---------------------------- *)
\* the list component shows a faulty component and a click-count component
ThrowTrees == {<<IComp("f", "faulty", 0), Counter("k", 0)>>}

Faulty == {h \in Handles(insts) : insts[h].type = "faulty" /\ insts[h].mounted /\ ~insts[h].destroyed}

\* what the page does: this.state.count = value on the faulty component, a click on the click-count
\* component, a new input for it or for the list component
ThrowMutations ==
    {<<h, "key", <<"count", value>> >> : h \in Faulty, value \in {0, 1}}
    \cup {<<h, "own", <<"input", value>> >> : h \in Counters, value \in {0, 1}}
    \cup Mutations(ThrowTrees)

\* a mutation made outside any batch while the unbatched queue, which a flush that throws does not
\* empty, is short
MutateQueue(m) ==
    /\ Len(unbatchedQueue) < MaxQueue
    /\ Mutate(m)

NextThrow ==
    \/ \E t \in ThrowTrees : Mount(t)
    \/ \E m \in ThrowMutations : MutateQueue(m)
    \/ Tick

SpecThrow == Init /\ [][NextThrow]_vars /\ TickFair

(* ------------------- batches around code that throws -------------------- *)
\* what the function handed to batchUpdate does: this.state.count = value on the faulty component, a
\* new input for the list component, or throw
BatchSteps ==
    {<<h, "key", <<"count", value>> >> : h \in Faulty, value \in {0, 1}}
    \cup {<<Root, "input", t>> : t \in {x \in ThrowTrees : insts # <<>>}}
    \cup {<<Root, "throw", <<>> >>}

\* the end of a batchUpdate scope entered at the given depth, with the depth of the stack it leaves
leaveBatch(st, depth) == Note(exitBatch(st, depth), "depth", Len(endBatch(st, depth).bs))

\* batchUpdate(function () { m1; m2 })
BatchTwo(m1, m2) ==
    /\ Len(unbatchedQueue) < MaxQueue
    /\ Commit(leaveBatch(mutation(mutation(pushBatch(Begin), m1), m2), Len(batchStack) + 1), "batchTwo", m1[1])

\* batchUpdate(function () { m1; batchUpdate(function () { m2 }); m3 })
BatchInside(m1, m2, m3) ==
    /\ Len(unbatchedQueue) < MaxQueue
    /\ Commit(leaveBatch(mutation(leaveBatch(mutation(pushBatch(mutation(pushBatch(Begin), m1)), m2),
                                              Len(batchStack) + 2), m3),
                          Len(batchStack) + 1), "batchInside", m1[1])

NextBatch ==
    \/ \E t \in ThrowTrees : Mount(t)
    \/ \E m \in BatchSteps : m[2] # "throw" /\ MutateQueue(m)
    \/ Tick
    \/ \E m1, m2 \in BatchSteps : BatchTwo(m1, m2)
    \/ \E m1, m2, m3 \in BatchSteps : m3[1] = Root /\ BatchInside(m1, m2, m3)

SpecBatch == Init /\ [][NextBatch]_vars

NextHandlers ==
    \/ \E t \in GaugeTrees : Mount(t)
    \/ \E m \in GaugeMutations : Mutate(m)
    \/ Tick

SpecHandlers == Init /\ [][NextHandlers]_vars

(* ----------------------- rendering with async builders ------------------ *)
Outs == 1..Len(out.bs)

\* a call of a builder method by the code that renders: the result becomes the state of the builders
OutCall(o, name, b) ==
    /\ out' = [o EXCEPT !.op = <<name, b>>]
    /\ UNCHANGED <<nodes, insts, lookup, batchStack, unbatchedQueue, updatesScheduled, ticks, pass, vel, vdom, keyseq, attrEl, state, component>>

Called == [out EXCEPT !.thrown = FALSE]

\* out.beginAsync(options), options.last set or not
BeginAsync(b, last) ==
    /\ Len(out.bs) + out.failed < MaxOuts
    /\ OutCall(beginAsync(Called, b, last), "beginAsync", b)

RECURSIVE Extra(_, _)
\* how many calls of end() or error(e) went to builders that had ended already
Extra(o, b) == IF b > Len(o.bs) THEN 0 ELSE Extra(o, b + 1) + (IF o.bs[b].ends > 1 THEN o.bs[b].ends - 1 ELSE 0)

\* a builder can be ended when it has not ended, and again while few builders have been ended again
CanEnd(b) == out.bs[b].ends = 0 \/ Extra(out, 1) < MaxExtra

\* out.end()
End(b) ==
    /\ CanEnd(b)
    /\ OutCall(end(Called, b), "end", b)

\* out.error(e)
Error(b) ==
    /\ CanEnd(b)
    /\ OutCall(error(Called, b), "error", b)

\* out.on("error", callback): the listener goes to the emitter that the builders share
OnError ==
    /\ ~out.listener
    /\ OutCall([Called EXCEPT !.listener = TRUE], "on", 1)

\* out.onLast(callback)
OnLast(b) ==
    /\ ~out.bs[b].hasLast
    /\ out.bs[b].lastCount > 0
    /\ OutCall([Called EXCEPT !.bs[b].hasLast = TRUE], "onLast", b)

NextAsync ==
    \/ \E b \in Outs, last \in BOOLEAN : BeginAsync(b, last)
    \/ \E b \in Outs : End(b)
    \/ \E b \in Outs : Error(b)
    \/ OnError
    \/ \E b \in Outs : OnLast(b)

SpecAsync == Init /\ [][NextAsync]_vars

(* ---------------------- building a virtual element --------------------- *)
VElementCall(el) ==
    /\ vel' = el
    /\ UNCHANGED <<nodes, insts, lookup, batchStack, unbatchedQueue, updatesScheduled, ticks, pass, out, vdom, keyseq, attrEl, state, component>>

\* new VElement(tagName, attrs): a textarea with or without a value attribute, or a checkbox
CreateElement(tagName, value, type) == VElementCall(NewVElement(tagName, value, type))

\* el.___appendChild(child)
AppendChild(child) ==
    /\ vel.made
    /\ vel.childCount < MaxAppend
    /\ VElementCall(appendChild(vel, child))

NextAppend ==
    \/ \E value \in {Null, Str("v")} : CreateElement("textarea", value, Null)
    \/ \E value \in {Null, Str("v")} : CreateElement("input", value, Str("checkbox"))
    \/ \E child \in Children : AppendChild(child)

SpecAppend == Init /\ [][NextAppend]_vars

(* ---------------------- building a virtual tree ------------------------- *)
VNodes == 1..Len(vdom.ns)

\* the nodes that take children: elements and document fragments
VParents == {n \in VNodes : vdom.ns[n].kind \in {"element", "docfrag"}}

VDomCall(ns, ret, op) ==
    /\ vdom' = [vdom EXCEPT !.ns = ns, !.ret = ret, !.op = op, !.walk = <<>>]
    /\ UNCHANGED <<nodes, insts, lookup, batchStack, unbatchedQueue, updatesScheduled, ticks, pass, out, vel, keyseq, attrEl, state, component>>

\* what the shorthand returns once the child is appended
returned(ns, p, childCount, whole) ==
    IF whole \/ childCount = 0 THEN finishChild(ns, p) ELSE Len(ns)

\* p.e(tagName, attrs, key, component, childCount): the new element is returned unless childCount is 0
ShortE(p, childCount) ==
    /\ Len(vdom.ns) < MaxVNodes
    /\ VDomCall(appendLinked(vdom.ns, p, NewVNode("element", childCount)),
                returned(appendLinked(vdom.ns, p, NewVNode("element", childCount)), p, childCount, FALSE),
                <<"e", p, childCount>>)

\* new VText(value), new VComment(value), and the clone of a static element that has no child
LeafNode(name) ==
    IF name = "t" THEN NewVNode("text", NoCount)
    ELSE IF name = "c" THEN NewVNode("comment", NoCount)
    ELSE NewVNode("element", 0)

\* p.t(value), p.c(value), p.n(node)
ShortLeaf(p, name) ==
    /\ Len(vdom.ns) < MaxVNodes
    /\ VDomCall(appendLinked(vdom.ns, p, LeafNode(name)),
                returned(appendLinked(vdom.ns, p, LeafNode(name)), p, 0, TRUE),
                <<name, p, NoCount>>)

\* p.___appendDocumentFragment(), of beginAsync
AppendDocumentFragment(p) ==
    /\ Len(vdom.ns) < MaxVNodes
    /\ VDomCall(appendLinked(vdom.ns, p, NewVNode("docfrag", NoCount)), Len(vdom.ns) + 1,
                <<"fragment", p, NoCount>>)

\* the children of p are walked with the getters; nested document fragments are not walked as parents
WalkChildren(p) ==
    /\ vdom.ns[p].kind = "element" \/ vdom.ns[p].parentNode = 0
    /\ vdom.walk = <<>>
    /\ vdom' = [vdom EXCEPT !.walk = <<p, walkFrom(vdom.ns, vFirstChild(vdom.ns, p), Len(vdom.ns))>>]
    /\ UNCHANGED <<nodes, insts, lookup, batchStack, unbatchedQueue, updatesScheduled, ticks, pass, out, vel, keyseq, attrEl, state, component>>

NextVDom ==
    \/ \E p \in VParents, childCount \in {NoCount, 0, 1, 2} : ShortE(p, childCount)
    \/ \E p \in VParents, name \in {"t", "c", "n"} : ShortLeaf(p, name)
    \/ \E p \in VParents : AppendDocumentFragment(p)
    \/ \E p \in VParents : WalkChildren(p)

SpecVDom == Init /\ [][NextVDom]_vars

(* ------------------ building with the builder's stack ------------------ *)
BuilderCall(b, name) ==
    /\ vdom' = [b EXCEPT !.op = <<name, vdom.parent, NoCount>>]
    /\ UNCHANGED <<nodes, insts, lookup, batchStack, unbatchedQueue, updatesScheduled, ticks, pass, out, vel, keyseq, attrEl, state, component>>

\* the node that out.beginElement, out.___beginFragment and out.bc open
OpenedNode(name) ==
    IF name = "beginElement" THEN NewVNode("element", NoCount)
    ELSE IF name = "beginFragment" THEN NewVNode("fragment", NoCount)
    ELSE NewVNode("component", NoCount)

\* out.beginElement(...), out.___beginFragment(...), out.bc(...)
BeginNode(name) ==
    /\ ~vdom.ended
    /\ Len(vdom.ns) < MaxVNodes
    /\ BuilderCall(beginNode(vdom, OpenedNode(name), TRUE), name)

\* the node that out.element, out.text and out.comment append
AppendedNode(name) ==
    IF name = "element" THEN NewVNode("element", 0)
    ELSE IF name = "text" THEN NewVNode("text", NoCount)
    ELSE NewVNode("comment", NoCount)

\* out.element(...) with no child, out.text(value), out.comment(value)
AppendNode(name) ==
    /\ ~vdom.ended
    /\ Len(vdom.ns) < MaxVNodes
    /\ BuilderCall(beginNode(vdom, AppendedNode(name), FALSE), name)

\* out.endElement(), out.___endFragment(), and endComponent for out.bc
EndElement ==
    /\ ~vdom.ended
    /\ BuilderCall(endElement(vdom), "endElement")

\* out.end(): this.___parent = undefined
EndBuilder ==
    /\ ~vdom.ended
    /\ BuilderCall([vdom EXCEPT !.parent = 0, !.ended = TRUE, !.thrown = FALSE], "end")

NextBuilder ==
    \/ \E name \in {"beginElement", "beginFragment", "bc"} : BeginNode(name)
    \/ \E name \in {"element", "text", "comment"} : AppendNode(name)
    \/ EndElement
    \/ EndBuilder

SpecBuilder == Init /\ [][NextBuilder]_vars

(* ------------------ reconciling children without keys ------------------ *)
\* the children the list component is asked to show: two div elements and a span element without key
\* and a keyed div element
ScanItems ==
    {IEl(KNull, "div", "x", <<>>), IEl(KNull, "div", "y", <<>>), IEl(KNull, "span", "x", <<>>),
     IEl("a", "div", "x", <<>>)}
\* and a text before and after a click-count component and a div element
ScanTrees ==
    Arrangements(ScanItems, MaxKids) \cup {<<IComp("k", "click-count", 0), IText("s")>>,
                                           <<IText("s"), IComp("k", "click-count", 0)>>,
                                           <<IEl(KNull, "div", "x", <<>>), IText("s")>>,
                                           <<IText("s"), IEl(KNull, "div", "x", <<>>)>>}

NextScan ==
    \/ \E t \in ScanTrees : Mount(t)
    \/ \E t \in ScanTrees : Rerender(t)
    \/ Tick

SpecScan == Init /\ [][NextScan]_vars

(* ------------------------- constant elements --------------------------- *)
ConstIds == {NoConstId, 1, 2}
\* the children the list component is asked to show: one div element with or without a constant id,
\* of class x or y, around nothing, a text or a span element of class x or y
ConstTrees ==
    {<<IConst("div", cls, kids, cid)>> :
        cls \in {"x", "y"}, cid \in ConstIds,
        kids \in {<<>>, <<IText("s")>>, <<IConst("span", "x", <<>>, NoConstId)>>,
                  <<IConst("span", "y", <<>>, NoConstId)>>}}

\* component.input = t; component.update(), every morphEl of the pass being recorded
RerenderWatched(t) ==
    /\ insts # <<>>
    /\ ~InSeq(Root, unbatchedQueue)
    /\ Commit(update(setInput([Begin EXCEPT !.watch = TRUE], Root, Input(t)), Root), "rerender", Root)

NextConst ==
    \/ \E t \in ConstTrees : Mount(t)
    \/ \E t \in ConstTrees : RerenderWatched(t)
    \/ Tick

SpecConst == Init /\ [][NextConst]_vars

(* ---------------------- detached and taken back ------------------------ *)
\* the children the list component is asked to show: three keyed div elements, one of them around a
\* click-count component, and a div element without key
DetachItems ==
    {IEl("a", "div", "x", <<IComp("k", "click-count", 0)>>), IEl("b", "div", "x", <<>>),
     IEl("c", "div", "x", <<>>), IEl(KNull, "div", "x", <<>>)}
DetachTrees == Arrangements(DetachItems, MaxKids)

NextDetach ==
    \/ \E t \in DetachTrees : Mount(t)
    \/ \E t \in DetachTrees : Rerender(t)
    \/ Tick

SpecDetach == Init /\ [][NextDetach]_vars

(* ------------------------ diffing attributes --------------------------- *)
\* vElement.___actualize(doc): a real element is made for a virtual element with the map attributes
Actualize(attributes, key) ==
    /\ attrEl' = [op |-> "actualize", key |-> key, real |-> actualizeAttrs(attributes), attrs |-> attributes,
                  oldAttrs |-> attributes, was |-> NoRealAttrs]
    /\ UNCHANGED <<nodes, insts, lookup, batchStack, unbatchedQueue, updatesScheduled, ticks, pass, out, vel,
                   vdom, keyseq, state, component>>

\* VElement.___morphAttrs(fromEl, vFromEl, toEl), toEl having the key of vFromEl and the map attrs
MorphAttrs(attrs) ==
    /\ attrEl.op # "none"
    /\ attrEl' = [op |-> "morph", key |-> attrEl.key,
                  real |-> generalMorphAttrs(attrEl.real, attrEl.attrs, attrs, attrEl.key),
                  attrs |-> attrs, oldAttrs |-> attrEl.attrs, was |-> attrEl.real]
    /\ UNCHANGED <<nodes, insts, lookup, batchStack, unbatchedQueue, updatesScheduled, ticks, pass, out, vel,
                   vdom, keyseq, state, component>>

NextAttrs ==
    \/ \E attributes \in VAttrMaps, key \in {KNull, "a"} : Actualize(attributes, key)
    \/ \E attrs \in VAttrMaps : MorphAttrs(attrs)

SpecAttrs == Init /\ [][NextAttrs]_vars

(* ----------------------------- a key sequence -------------------------- *)
\* the literal keys handed to a key sequence; one of them looks like a key with a counter
LiteralKeys == {"k", "j", "k_1"}

\* keySequence.___nextKey(key)
NextKeyCall(key) ==
    /\ Len(keyseq.calls) < MaxCalls
    /\ keyseq' = [lookup |-> nextKey(keyseq.lookup, key)[2],
                  calls |-> Append(keyseq.calls, <<key, nextKey(keyseq.lookup, key)[1]>>)]
    /\ UNCHANGED <<nodes, insts, lookup, batchStack, unbatchedQueue, updatesScheduled, ticks, pass, out, vel,
                   vdom, attrEl, state, component>>

\* new KeySequence(), at the start of a render
FreshKeySequence ==
    /\ keyseq.calls # <<>>
    /\ keyseq' = NewKeySequence
    /\ UNCHANGED <<nodes, insts, lookup, batchStack, unbatchedQueue, updatesScheduled, ticks, pass, out, vel,
                   vdom, attrEl, state, component>>

NextKeys ==
    \/ \E key \in LiteralKeys : NextKeyCall(key)
    \/ FreshKeySequence

SpecKeys == Init /\ [][NextKeys]_vars

(* --------------------- changes of a component's state ------------------- *)
\* this.state.<name> = value
StateSet(name, value) ==
    /\ state' = [set(state, name, value, FALSE) EXCEPT !.sets = IF state.dirty THEN Cap(@ + 1) ELSE 0]
    /\ UNCHANGED <<nodes, insts, lookup, batchStack, unbatchedQueue, updatesScheduled, ticks, pass, out, vel,
                   vdom, keyseq, attrEl, component>>

\* component.setStateDirty(name, value)
StateSetDirty(name, value) ==
    /\ state' = [set(state, name, value, TRUE) EXCEPT !.sets = IF state.dirty THEN Cap(@ + 1) ELSE 0]
    /\ UNCHANGED <<nodes, insts, lookup, batchStack, unbatchedQueue, updatesScheduled, ticks, pass, out, vel,
                   vdom, keyseq, attrEl, component>>

\* component.state = newState, component.replaceState(newState)
StateReplace(newState) ==
    /\ state' = [replace(state, newState) EXCEPT !.sets = IF state.dirty THEN Cap(@ + 1) ELSE 0]
    /\ UNCHANGED <<nodes, insts, lookup, batchStack, unbatchedQueue, updatesScheduled, ticks, pass, out, vel,
                   vdom, keyseq, attrEl, component>>

\* State.___reset
StateReset ==
    /\ state.dirty
    /\ state' = [state EXCEPT !.dirty = FALSE, !.old = 0, !.changes = EmptyMap, !.forced = {},
                              !.queued = FALSE, !.sets = 0]
    /\ UNCHANGED <<nodes, insts, lookup, batchStack, unbatchedQueue, updatesScheduled, ticks, pass, out, vel,
                   vdom, keyseq, attrEl, component>>

NextState ==
    \/ \E name \in StateKeys, value \in StateValues \cup {Undef} : StateSet(name, value)
    \/ \E name \in StateKeys, value \in StateValues : StateSetDirty(name, value)
    \/ \E newState \in NewStates : StateReplace(newState)
    \/ StateReset

SpecState == Init /\ [][NextState]_vars

(* ----------------------- new input for a component --------------------- *)
\* component.input = newInput
SetInput(newInput) ==
    /\ component' = setInput_props(component, newInput)
    /\ UNCHANGED <<nodes, insts, lookup, batchStack, unbatchedQueue, updatesScheduled, ticks, pass, out, vel,
                   vdom, keyseq, attrEl, state>>

\* the queued update of the component has run: Component.update and ___reset
Updated ==
    /\ component.updateQueued
    /\ component' = [component EXCEPT !.dirty = FALSE, !.updateQueued = FALSE, !.queuedNow = FALSE,
                                      !.op = "update"]
    /\ UNCHANGED <<nodes, insts, lookup, batchStack, unbatchedQueue, updatesScheduled, ticks, pass, out, vel,
                   vdom, keyseq, attrEl, state>>

NextInput ==
    \/ \E newInput \in Inputs : SetInput(newInput)
    \/ Updated

SpecInput == Init /\ [][NextInput]_vars

(* ------------------------------ properties ------------------------------ *)
RECURSIVE Matches(_, _, _)
\* the real nodes ks are, one for one and in order, the virtual nodes vs: node type, tag name and key
Matches(ns, ks, vs) ==
    /\ Len(ks) = Len(vs)
    /\ \A i \in 1..Len(vs) :
          IF vs[i].vt = ELEMENT_NODE
          THEN /\ ns[ks[i]].type = ELEMENT_NODE
               /\ ns[ks[i]].tag = vs[i].tag
               /\ ns[ks[i]].vkey = vs[i].key
               /\ Matches(ns, ns[ks[i]].kids, vs[i].kids)
          ELSE IF vs[i].vt = TEXT_NODE THEN ns[ks[i]].type = TEXT_NODE
          ELSE ns[ks[i]].type = FRAGMENT_NODE /\ ns[ks[i]].comp = vs[i].comp

\* the virtual children of the last pass of the list component, keys resolved
NewDescr == VDescr(pass.vtree, 1, EmptyMap)
RerenderDone == pass.kind = "rerender" /\ pass.morphed /\ ~pass.err
NoDomChange ==
    pass.ins = 0 /\ pass.mov = 0 /\ pass.rem = 0 /\ pass.attrw = 0 /\ pass.textw = 0 /\ pass.created = 0
NoDestroyEvent == \A i \in 1..Len(pass.log) : pass.log[i][1] # "destroy"

\* C1: when the reconcile of a list returns normally, the real children of the container are, in order,
\* exactly one real node per virtual child of the new tree, with its node type, tag name and key
C1_ChildrenAreNewTree ==
    (pass.morphed /\ ~pass.err) =>
        (insts[Root].root # 0 /\ Matches(nodes, nodes[insts[Root].root].kids, pass.vtree))

\* C2 as stated: an element key registered before a re-render that the new render contains again is
\* backed by the same real node afterwards
C2_KeyedStabilityAnyTag ==
    RerenderDone =>
        \A r \in pass.reg :
            (\E j \in 1..Len(NewDescr) : NewDescr[j][1] = ELEMENT_NODE /\ NewDescr[j][3] = r[1])
                => <<Root, r[1]>> \in pass.kept

\* the new children are the old real children in another order, all keyed elements with distinct keys
IsPermutation ==
    /\ Len(NewDescr) = Len(pass.was)
    /\ \A j \in 1..Len(NewDescr) :
          /\ NewDescr[j][1] = ELEMENT_NODE /\ IsKey(NewDescr[j][3])
          /\ \E i \in 1..Len(pass.was) : pass.was[i] = NewDescr[j]
          /\ \A i \in 1..Len(NewDescr) : i # j => NewDescr[i][3] # NewDescr[j][3]

\* C2: an element key registered before a re-render that the new render contains again with the same
\* tag name is backed by the same real node afterwards, whatever happened among its siblings; and a
\* permutation of keyed siblings creates no node and removes none
C2_KeyedStabilitySameTag ==
    RerenderDone =>
        /\ \A r \in pass.reg :
              (\E j \in 1..Len(NewDescr) :
                   NewDescr[j][1] = ELEMENT_NODE /\ NewDescr[j][3] = r[1] /\ r[2] = ELEMENT_NODE
                   /\ NewDescr[j][2] = r[3])
                  => <<Root, r[1]>> \in pass.kept
        /\ IsPermutation => (pass.created = 0 /\ pass.ins = 0 /\ pass.rem = 0)

\* a re-render that moved the key c from the last to the first place and kept a and b
C2_Witness ==
    /\ RerenderDone
    /\ Len(pass.was) = 3 /\ IsPermutation /\ pass.was # NewDescr
    /\ {<<Root, "a">>, <<Root, "b">>, <<Root, "c">>} \subseteq pass.kept
    /\ pass.mov > 0

SwapAt(s, i) == [s EXCEPT ![i] = s[i + 1], ![i + 1] = s[i]]
\* the new children are the old real children with two adjacent keyed elements swapped
IsSwap ==
    \E i \in 1..(Len(NewDescr) - 1) :
        /\ NewDescr[i][1] = ELEMENT_NODE /\ IsKey(NewDescr[i][3])
        /\ NewDescr[i + 1][1] = ELEMENT_NODE /\ IsKey(NewDescr[i + 1][3])
        /\ NewDescr[i][3] # NewDescr[i + 1][3]
        /\ pass.was = SwapAt(NewDescr, i)

\* no key is written twice among the new children
KeysWrittenOnce ==
    \A i, j \in 1..Len(pass.vtree) : i # j => pass.vtree[i].key # pass.vtree[j].key

Count(ev, h) == CountEv(pass.log, ev, h)
At(ev, h) == {i \in 1..Len(pass.log) : pass.log[i] = <<ev, h>>}
\* the positions of the log at which a re-render pass begins
PassStarts == {i \in 1..Len(pass.log) : pass.log[i][1] = "rerender"}
SamePass(i, j) == \A k \in PassStarts : ~(i < k /\ k <= j)
\* the component's root is in the document
Attached(h) == insts[h].root # 0 /\ Top(nodes, insts[h].root) = Container

\* the old real children are three keyed siblings, the first and the third without children, and the new
\* children are the first and the third as they were
IsRemoveMiddle ==
    /\ Len(pass.was) = 3
    /\ NewDescr = <<pass.was[1], pass.was[3]>>
    /\ {1, 3} \subseteq pass.leaves
    /\ \A i \in 1..Len(pass.vtree) : pass.vtree[i].kids = <<>>
    /\ \A i \in {1, 3} : pass.was[i][1] = ELEMENT_NODE
    /\ pass.was[2][1] \in {ELEMENT_NODE, FRAGMENT_NODE}
    /\ \A i \in 1..3 : IsKey(pass.was[i][3])
    /\ \A i, j \in 1..3 : i # j => pass.was[i][3] # pass.was[j][3]

C6_RenderedAgainIsReused ==
    (pass.kind = "rerender" /\ ~pass.err) =>
        \A h \in pass.alive \ {Root} :
            (\E i \in 1..Len(pass.log) :
                 /\ pass.log[i][1] = "rendered"
                 /\ insts[pass.log[i][2]].id = insts[h].id
                 /\ insts[pass.log[i][2]].type = insts[h].type)
                => /\ ~insts[h].destroyed
                   /\ Count("destroy", h) = 0
                   /\ \A i \in 1..Len(pass.log) :
                         pass.log[i][1] = "create" => insts[pass.log[i][2]].id # insts[h].id

\* C7: the destroy event of a component fires exactly once, however often and by whichever way it is
\* destroyed (destroy() of the application, removal by the reconciler, destruction of an ancestor), and
\* a mounted component that a pass takes out of the document has had it
C7_DestroyOnce ==
    /\ \A h \in Handles(insts) :
          /\ insts[h].nDestroy = (IF insts[h].destroyed THEN 1 ELSE 0)
          /\ Count("destroy", h) <= 1
    /\ \A h \in pass.dead : Count("destroy", h) = 0
    /\ \A h \in pass.alive :
          (~pass.err /\ ~Attached(h)) => (insts[h].destroyed /\ Count("destroy", h) = 1)
    /\ \A h \in pass.alive \ {Root} :
          (RerenderDone /\ Count("rendered", h) = 0) => (insts[h].destroyed /\ Count("destroy", h) = 1)
    /\ pass.kind = "destroy" => insts[pass.h].destroyed

C9_LifecycleOrder ==
    \A h \in Handles(insts) :
        /\ insts[h].nMount <= 1
        /\ insts[h].nMount = 1 => insts[h].nCreate = 1
        /\ \A i \in At("mount", h) : h \notin pass.alive /\ \E j \in At("create", h) : j < i
        /\ \A i \in At("update", h) : insts[h].nMount = 1 /\ \A j \in At("mount", h) : j < i
        /\ h \in pass.dead => (Count("mount", h) = 0 /\ Count("update", h) = 0 /\ Count("render", h) = 0)
        /\ \A i \in At("destroy", h) :
              \A j \in At("mount", h) \cup At("update", h) \cup At("render", h) : j < i

Sets(h) == At("set", h)
\* one update of the component of the batch, made after the last mutation
OneUpdateAtExit ==
    /\ Count("rerender", pass.h) = 1
    /\ \A i \in Sets(pass.h) : \A j \in At("rerender", pass.h) : i < j

EventsOf(log, what) ==
    [i \in 1..Len(SelectSeq(log, LAMBDA e : e[1] = what)) |-> SelectSeq(log, LAMBDA e : e[1] = what)[i][2]]

\* before the handler the component was dirty and not destroyed
WasDirty(h) == ~insts[h].destroyed /\ isDirty(insts[h])

\* the components of the tick queue that were dirty before the handler, in queue order (a component
\* re-rendered by its parent while it was waiting, and then made dirty again, is in the queue twice)
DirtyQueue == Dedup(SelectSeq(unbatchedQueue, LAMBDA h : WasDirty(h)), {})

\* the handler that has just run was a tick that did not throw
TickDone == pass'.kind = "tick" /\ ~pass'.err

\* at most one callback is with nextTick, and one is exactly while updatesScheduled is set
OneTick == ticks' <= 1 /\ (updatesScheduled' <=> ticks' = 1) /\ (unbatchedQueue' # <<>> => ticks' = 1)

\* the update events the handler has fired for the components that were dirty in the tick queue
UpdatesOfDirty == SelectSeq(EventsOf(pass'.log, "update"), LAMBDA h : InSeq(h, DirtyQueue))

NestedDone ==
    /\ pass.kind \in {"nestedLast", "nestedFirst"}
    /\ ~pass.err
    /\ \A i \in 1..Len(pass.log) : pass.log[i][1] = "set" => pass.log[i][2] \notin pass.queued

\* the component mutated in the outer scope, and the one mutated in the inner scope
Outer == pass.h
Inner == CHOOSE h \in Handles(insts) : h # pass.h /\ Count("set", h) > 0

\* where in the log the inner scope ends
ExitInner == CHOOSE i \in 1..Len(pass.log) : pass.log[i] = <<"exit", 2>>

\* where in the log the update events are that a component has got since it was made dirty
UpdatedAt(h) == {i \in At("update", h) : \E k \in At("set", h) : k < i}

QuietFrom(h, i) ==
    \A j \in At("update", h) \cup At("rerender", h) \cup At("render", h) : j < i

\* C13: a component that was destroyed while it was waiting in the tick queue or in the queue of a
\* batch is skipped when the queue is flushed: from the call of update() that the flush makes for it,
\* the handler does not render it and fires no update event for it.
C13_DestroyedIsSkipped ==
    \A h \in Handles(insts) :
        \A c \in At("call", h) :
            (h \in pass.dead \/ \E d \in At("destroy", h) : d < c) => QuietFrom(h, c)

(* ------------------------- C14: update handlers ------------------------- *)
\* the update_<name> calls the handler has made on the component h, in call order
HandlerCalls(log, h) == SelectSeq(log, LAMBDA e : e[1] = "handler" /\ e[2] = h)

\* one call update_<name>(new value, old value) for every state property that was dirty before the handler
ExpectedCalls(h) ==
    {<<"handler", h, name, insts[h].schanges[name], MapGet(insts[h].sold, name, Undef)>> :
        name \in DOMAIN insts[h].schanges}

\* the gauges that were waiting dirty in the tick queue before the handler
QueuedGauges == {h \in Gauges : InSeq(h, unbatchedQueue) /\ WasDirty(h)}

\* every dirty state property of h had its handler called once, with the value the state now has and the
\* value it had before, and h was not rendered again
Shortcut(h) ==
    /\ Len(HandlerCalls(pass'.log, h)) = Cardinality(ExpectedCalls(h))
    /\ {HandlerCalls(pass'.log, h)[i] : i \in 1..Len(HandlerCalls(pass'.log, h))} = ExpectedCalls(h)
    /\ \A i \in 1..Len(HandlerCalls(pass'.log, h)) :
           HandlerCalls(pass'.log, h)[i][4] = MapGet(insts'[h].sraw, HandlerCalls(pass'.log, h)[i][3], Undef)
    /\ CountEv(pass'.log, "rerender", h) = 0
    /\ CountEv(pass'.log, "update", h) = 1

\* no handler of h was called and h was rendered again, once
FullRerender(h) ==
    /\ HandlerCalls(pass'.log, h) = <<>>
    /\ CountEv(pass'.log, "rerender", h) = 1
    /\ CountEv(pass'.log, "update", h) = 1

\* C14 as stated: when a queued component is updated and every dirty state key has an update_<key>
\* handler, each handler is called with (new value, old value) and no re-render is performed; a full
\* re-render occurs only when at least one dirty state key lacks a handler.
C14_HandlersShortcut ==
    [][TickDone =>
         \A h \in QueuedGauges :
            /\ allHandled(insts[h]) => Shortcut(h)
            /\ CountEv(pass'.log, "rerender", h) > 0 => ~allHandled(insts[h])]_vars

\* C14 amended: the shortcut is taken when every dirty state key has a handler and the component is not
\* itself dirty (no new input, no forceUpdate); a component that is itself dirty, or that has a dirty
\* state key without a handler, is rendered again in full and none of its handlers is called.
C14_HandlersShortcutUnlessInputDirty ==
    [][TickDone =>
         \A h \in QueuedGauges :
            /\ (~insts[h].dirty /\ allHandled(insts[h])) => Shortcut(h)
            /\ (insts[h].dirty \/ ~allHandled(insts[h])) => FullRerender(h)]_vars

\* a tick has called update_count and update_step of a gauge and has not rendered it again
C14_Witness ==
    /\ pass.kind = "tick"
    /\ ~pass.err
    /\ \E h \in Gauges :
          /\ {e[3] : e \in {HandlerCalls(pass.log, h)[i] : i \in 1..Len(HandlerCalls(pass.log, h))}} = {"count", "step"}
          /\ CountEv(pass.log, "rerender", h) = 0
          /\ CountEv(pass.log, "update", h) = 1

(* ------------------------ C15-C17: async builders ----------------------- *)
\* every builder of the render has ended
AllEnded(o) == \A b \in 1..Len(o.bs) : o.bs[b].ends > 0

\* no builder of the render has been ended more than once
NoneEndedTwice(o) == \A b \in 1..Len(o.bs) : o.bs[b].ends <= 1

\* the call that has just been made has emitted "finish"
FinishEmitted == out'.nFinish > out.nFinish

\* C15 as stated: for any tree of builders opened with beginAsync and any interleaving of their end()
\* calls, "finish" is never emitted while the root builder or an async descendant has not yet ended.
C15_FinishOnlyWhenAllEnded == [][FinishEmitted => AllEnded(out')]_vars

\* C15 amended: as long as no builder has been ended more than once (by end() or error(e)), "finish"
\* is never emitted while the root builder or an async descendant has not yet ended.
C15_FinishOnlyWhenAllEndedOnce == [][(FinishEmitted /\ NoneEndedTwice(out')) => AllEnded(out')]_vars

\* "finish" has been emitted for a root with a child and a grandchild, each ended once
C15_Witness ==
    /\ out.nFinish = 1
    /\ NoneEndedTwice(out)
    /\ AllEnded(out)
    /\ \E b \in Outs : out.bs[b].parentOut > 1

\* C16 as stated: once the root builder and every async descendant have each ended, each exactly once,
\* "finish" has been emitted exactly once, whatever the order in which the branches ended.
C16_FinishExactlyOnce == (\A b \in Outs : out.bs[b].ends = 1) => out.nFinish = 1

\* C17: error(e) ends the builder exactly as end() does, whether or not an "error" listener is attached:
\* the builder's count is decremented and completion goes on to its parent as in end(); without a
\* listener the emitter throws to the caller and the builder has been ended all the same.
C17_ErrorEndsLikeEnd ==
    [][out'.op[1] = "error" =>
          /\ out'.bs = end(Called, out'.op[2]).bs
          /\ out'.nFinish = end(Called, out'.op[2]).nFinish
          /\ out'.finished = end(Called, out'.op[2]).finished
          /\ out'.bs[out'.op[2]].ends = out.bs[out'.op[2]].ends + 1
          /\ out'.bs[out'.op[2]].remaining = out.bs[out'.op[2]].remaining - 1
          /\ ~out.listener => out'.thrown]_vars

\* error(e) without a listener has thrown, has ended the last open child and so has finished the render
C17_Witness ==
    /\ out.op[1] = "error"
    /\ out.op[2] > 1
    /\ ~out.listener
    /\ out.thrown
    /\ out.bs[out.op[2]].ends = 1
    /\ out.nFinish = 1

(* --------------------------- C18: textarea ----------------------------- *)
RECURSIVE Concat(_)
\* the texts joined in the order of the sequence
Concat(texts) == IF texts = <<>> THEN "" ELSE texts[1] \o Concat(Tail(texts))

\* C18: appending to a textarea virtual element a child that is neither a text node nor a preserve
\* marker throws a type error (and text nodes and preserve markers do not); once text nodes have been
\* appended the value of the textarea is the concatenation of the appended texts, in order.
C18_TextareaLeaf ==
    (vel.made /\ vel.nodeName = "textarea" /\ vel.childCount > 0) =>
        /\ vel.thrown <=> (vel.last.kind # "text" /\ ~vel.last.preserve)
        /\ vel.kids = <<>>
        /\ vel.texts # <<>> => valueOf(vel) = Concat(vel.texts)

\* a textarea with a value attribute has had two different texts appended and then an element, which threw
C18_Witness ==
    /\ vel.nodeName = "textarea"
    /\ ~vel.value.null
    /\ vel.texts = <<"a", "b">>
    /\ vel.last.kind = "element"
    /\ vel.thrown
    /\ valueOf(vel) = "ab"

(* ------------------------ C19: destroy cascades ------------------------- *)
\* the handler that has just run was destroy() of a component that was not destroyed
DestroyDone == pass'.kind = "destroy" /\ ~pass'.err /\ ~insts[pass'.h].destroyed /\ insts[pass'.h].root # 0

\* the components, not destroyed, whose root was in the DOM subtree of the component h before the handler
Within(h) ==
    {x \in Handles(insts) :
        ~insts[x].destroyed /\ insts[x].root # 0 /\ InSeq(insts[x].root, Dfs(nodes, insts[h].root))}

\* the document in document order
Document(ns) == DescrSeq(ns, Dfs(ns, Container))

\* the document before the handler without the DOM subtree of the component h
DocumentWithout(h) ==
    DescrSeq(nodes, SelectSeq(Dfs(nodes, Container), LAMBDA n : ~InSeq(n, Dfs(nodes, insts[h].root))))

\* C19: destroying a component destroys every component whose root lies inside its DOM subtree, at any
\* depth: each gets its destroy event, is marked destroyed and is removed from the component lookup;
\* the DOM nodes of the destroyed component are detached and its listeners are unregistered.
C19_DestroyCascades ==
    [][DestroyDone =>
          /\ \A x \in Within(pass'.h) :
                /\ CountEv(pass'.log, "destroy", x) = 1
                /\ insts'[x].destroyed
                /\ insts[x].id \notin DOMAIN lookup'
                /\ ~insts'[x].subs
          /\ pass'.h \in Within(pass'.h)
          /\ Document(nodes') = DocumentWithout(pass'.h)]_vars

\* the list component has been destroyed while it showed another component: both have had their
\* destroy event and the document is empty
C19_Witness ==
    /\ pass.kind = "destroy"
    /\ pass.h = Root
    /\ ~pass.err
    /\ \E x \in Handles(insts) : x # Root /\ CountEv(pass.log, "destroy", x) = 1 /\ insts[x].destroyed
    /\ CountEv(pass.log, "destroy", Root) = 1
    /\ Document(nodes) = DescrSeq(nodes, <<Container>>)

(* ------------------------- C20: component ids -------------------------- *)
\* the component instances that are mounted and not destroyed
Mounted == {h \in Handles(insts) : insts[h].mounted /\ ~insts[h].destroyed}

\* C20: at every moment no two distinct mounted, not destroyed component instances have the same id,
\* whatever mix of keyed children, unkeyed children and repeated keys a parent renders.
C20_UniqueIds == \A x \in Mounted, y \in Mounted : x # y => insts[x].id # insts[y].id

(* ---------------------- C21: walking virtual children ------------------- *)
RECURSIVE Flat(_, _, _)
\* the children kids[i..] with the document fragments among them replaced by their own flattened children
Flat(ns, kids, i) ==
    IF i > Len(kids) THEN <<>>
    ELSE (IF ns[kids[i]].kind = "docfrag" THEN Flat(ns, ns[kids[i]].kids, 1) ELSE <<kids[i]>>)
         \o Flat(ns, kids, i + 1)

\* C21: walking the children of a virtual parent with firstChild / nextSibling visits exactly the nodes
\* of its child list that are not document fragments, nested document fragments flattened in place,
\* in document order and each once; an empty document fragment, at whatever depth and position,
\* contributes nothing and does not end the walk.
C21_WalkFlattens == vdom.walk # <<>> => vdom.walk[2] = Flat(vdom.ns, vdom.ns[vdom.walk[1]].kids, 1)

\* a walk has passed an empty document fragment nested in a first document fragment and has visited
\* the node after it
C21_Witness ==
    /\ vdom.walk # <<>>
    /\ Len(vdom.walk[2]) = 1
    /\ Len(vdom.ns[vdom.walk[1]].kids) = 2
    /\ vdom.ns[vdom.walk[2][1]].kind = "text"
    /\ vdom.ns[vdom.walk[1]].kids[2] = vdom.walk[2][1]
    /\ \E f \in VNodes, g \in VNodes :
          /\ vdom.ns[f].kind = "docfrag" /\ vdom.ns[g].kind = "docfrag"
          /\ vdom.ns[vdom.walk[1]].kids[1] = f
          /\ vdom.ns[f].kids = <<g>>
          /\ vdom.ns[g].kids = <<>>

(* ----------------------- C22: chaining shorthands ----------------------- *)
RECURSIVE PathUp(_, _)
\* the node n and its ancestors, nearest first
PathUp(ns, n) == IF ns[n].parentNode = 0 THEN <<n>> ELSE <<n>> \o PathUp(ns, ns[n].parentNode)

\* the nearest node of the path that passes the test, or the root
Nearest(path, Test(_)) ==
    IF \E i \in 1..Len(path) : Test(path[i])
    THEN path[CHOOSE i \in 1..Len(path) : Test(path[i]) /\ \A j \in 1..(i - 1) : ~Test(path[j])]
    ELSE path[Len(path)]

\* the child count has not reached the declared final child count, or none is declared
NotReached(n) == vdom.ns[n].finalChildCount = NoCount \/ vdom.ns[n].childCount < vdom.ns[n].finalChildCount

\* the child count is not the declared final child count
NotEqual(n) == vdom.ns[n].childCount # vdom.ns[n].finalChildCount

Shorthand == vdom.op[1] \in {"e", "t", "c", "n"}

\* C22 as stated: after an append through e, t, c or n the node returned is the nearest node, from the
\* appended-to node up to the root, whose child count has not reached its final child count, or the root.
C22_ReturnsNearestIncomplete ==
    Shorthand => vdom.ret = Nearest(PathUp(vdom.ns, vdom.op[2]), NotReached)

\* C22 amended: e with a child count other than 0 returns the new element; every other append through
\* e, t, c or n returns the nearest node, from the appended-to node up to the root, whose child count
\* is not equal to its final child count, or the root.
C22_ReturnsChildOrNearestUnequal ==
    Shorthand =>
        IF vdom.op[1] = "e" /\ vdom.op[3] # 0
        THEN vdom.ret = Len(vdom.ns) /\ vdom.ns[vdom.ret].parentNode = vdom.op[2]
        ELSE vdom.ret = Nearest(PathUp(vdom.ns, vdom.op[2]), NotEqual)

\* the last expected child of an element that was itself the last expected child has been appended:
\* the node returned is two levels up
C22_Witness ==
    /\ vdom.op[1] = "t"
    /\ vdom.ns[vdom.op[2]].finalChildCount = vdom.ns[vdom.op[2]].childCount
    /\ vdom.ns[vdom.op[2]].parentNode # 0
    /\ vdom.ns[vdom.ns[vdom.op[2]].parentNode].finalChildCount = 1
    /\ vdom.ns[vdom.ns[vdom.op[2]].parentNode].parentNode = vdom.ret

(* ------------------- C23: the builder's insertion point ----------------- *)
Begins == {"beginElement", "beginFragment", "bc"}
Leaves23 == {"element", "text", "comment"}

\* C23: while a builder is in use (until end()) its insertion point is the top of its stack of open
\* nodes; beginElement, beginFragment and bc push exactly one node, the new one, and make it the
\* insertion point; endElement pops exactly one; element, text and comment change neither; and the
\* endElement that closes a begin brings back the insertion point there was before that begin.
C23_InsertionPointIsStackTop ==
    [][/\ ~vdom'.ended => vdom'.parent = stackTop(vdom'.stack)
       /\ (vdom'.op[1] \in Begins /\ ~vdom'.thrown) =>
              /\ vdom'.stack = Append(vdom.stack, Len(vdom'.ns))
              /\ Len(vdom'.ns) = Len(vdom.ns) + 1
              /\ vdom'.parent = Len(vdom'.ns)
              /\ vdom'.ns[vdom'.parent].parentNode = vdom.parent
       /\ vdom'.op[1] \in Leaves23 => (vdom'.stack = vdom.stack /\ vdom'.parent = vdom.parent)
       /\ (vdom'.op[1] = "endElement" /\ vdom.stack # <<>>) =>
              /\ vdom.stack = Append(vdom'.stack, vdom.stack[Len(vdom.stack)])
              /\ vdom'.parent = vdom.before[Len(vdom.stack)]]_vars

\* two nodes were opened one inside the other, the inner one has got a child and has been closed: the
\* insertion point is the outer one again
C23_Witness ==
    /\ vdom.op[1] = "endElement"
    /\ Len(vdom.stack) = 2
    /\ vdom.parent = vdom.stack[2]
    /\ \E n \in VNodes : vdom.ns[n].parentNode = vdom.parent /\ vdom.ns[n].childCount = 1

(* --------------------------- C24: key sequence -------------------------- *)
\* how many of the calls before the i-th had the same literal key
Earlier(i) == Cardinality({j \in 1..(i - 1) : keyseq.calls[j][1] = keyseq.calls[i][1]})

TargetOf(i) == pass.scan[CHOOSE j \in 1..i : pass.scan[j].ev = "scan" /\ \A k \in (j + 1)..i : pass.scan[k].ev # "scan"]

\* same node type, and for elements the same tag name
SameTypeAndTag(e, v) == e.type = v.type /\ (e.type = ELEMENT_NODE => e.tag = v.tag)

\* the real nodes the scans of the pass passed over, took, and the scans that found none
Skips == {i \in 1..Len(pass.scan) : pass.scan[i].ev = "skip"}
Taken == {i \in 1..Len(pass.scan) : pass.scan[i].ev = "match"}

Compatible(e, v) == SameTypeAndTag(e, v) /\ ~e.keyed /\ ~e.comp

C26_DestroyedIffNotRendered ==
    RerenderDone =>
        \A h \in pass.alive \ {Root} : insts[h].destroyed <=> Count("rendered", h) = 0

(* ------------------------- C27: deferred detach ------------------------- *)
\* the keyed nodes that were among the detached nodes when a later target of the pass matched them
\* (one found to have another tag name is not matched: the next entry then tells so)
Revivals ==
    {i \in 1..Len(pass.scan) :
        pass.scan[i].ev = "revive" /\ (i < Len(pass.scan) => pass.scan[i + 1].ev # "located")}

\* the nodes of the pass with a known target: taken back, or made for a key whose tag name changed
Placed == {j \in 1..Len(pass.scan) : pass.scan[j].ev \in {"revive", "fresh"} /\ pass.scan[j].attached}

\* the i-th entry is for a node that stands where its target stands: not in front of the position of
\* the target, and on the same side of the other nodes of the parent as its target is of theirs
InPlace(i) ==
    /\ pass.scan[i].pos >= pass.scan[i].at
    /\ \A j \in Placed :
          (pass.scan[j].par = pass.scan[i].par /\ pass.scan[j].at < pass.scan[i].at)
              => pass.scan[j].pos < pass.scan[i].pos

Located == {i \in 1..Len(pass.scan) : pass.scan[i].ev = "located"}
Fresh == {i \in 1..Len(pass.scan) : pass.scan[i].ev = "fresh"}

\* C28: when the real node found under the key of a virtual child has another tag name, then at the end
\* of the pass that node is out of the DOM, a fresh node with the new tag name is at the position of
\* the virtual child, and the key is registered to the fresh node.
C28_TagChange ==
    (RerenderDone /\ ~pass.full) =>
        /\ \A i \in Located : ~pass.scan[i].attached
        /\ \A i \in Fresh : /\ pass.scan[i].attached
                              /\ pass.scan[i].pos = pass.scan[i].at
                              /\ pass.scan[i].reg

(* ---------------- C29: the placeholder of a mounted component ---------- *)
Placeholders == {i \in 1..Len(pass.scan) : pass.scan[i].ev = "placeholder"}

\* C29: for the placeholder of a component that is already mounted the pass makes no node for the root
\* of the component: the root it has is moved to the place of the placeholder, or is there already, and
\* when the placeholder is flagged preserve nothing under the root is changed.
C29_MountedPlaceholder ==
    (RerenderDone /\ ~pass.full) =>
        \A i \in Placeholders :
            /\ pass.scan[i].kept
            /\ pass.scan[i].attached
            /\ InPlace(i)
            /\ pass.scan[i].preserve => pass.scan[i].after = pass.scan[i].content

(* ------------------------ C30: attribute diffing ------------------------ *)
\* the attributes were diffed, and before that the element had the attributes of the old map
Diffed == attrEl.op = "morph" /\ attrEl.was = actualizeAttrs(attrEl.oldAttrs)

\* the real attributes that stand for an entry of the old map that the new map does not have
Dropped == {qualified(a) : a \in {b \in VAttrNames : attrEl.oldAttrs[b] # Absent /\ attrEl.attrs[b] = Absent}}

\* C30: diffing on the general path, on an element that has the attributes of the old map, leaves the
\* element with exactly the attributes of the new map that are not null, undefined or false; only for a
\* keyed element the attributes that the new map does not have stay as they were.
C30_AttrsOfNewMap ==
    Diffed =>
        \A q \in RealAttrNames :
            attrEl.real[q] = IF attrEl.key # KNull /\ q \in Dropped THEN attrEl.was[q]
                             ELSE actualizeAttrs(attrEl.attrs)[q]


\* the calls of morphEl of the last pass
MorphedEls == 1..Len(pass.els)
\* the call was made with equal constant ids, both defined
EqualConstIds(i) == pass.els[i].cids[2] # NoConstId /\ pass.els[i].cids[1] = pass.els[i].cids[2]
\* everything under the element is as it was at the call
Skipped(i) == pass.els[i].after = pass.els[i].content
DiffedEl(i) == pass.els[i].got = pass.els[i].want

\* C31: a call of morphEl leaves the attributes and everything under the real element as they were
\* when the constant ids of the real and of the new virtual element are equal and defined; in every
\* other case the element ends the pass with the attributes of the new virtual element and with one
\* child of the type and tag name of each of its children
C31_ConstIdShortCircuit ==
    RerenderDone =>
        \A i \in MorphedEls :
            /\ EqualConstIds(i) => Skipped(i)
            /\ ~EqualConstIds(i) => DiffedEl(i)
\* an element of equal constant ids whose new virtual element asks for other attributes or children
\* was left alone
C31_Witness ==
    /\ RerenderDone
    /\ \E i \in MorphedEls : EqualConstIds(i) /\ pass.els[i].want # pass.els[i].got /\ Skipped(i)
\* and one that had a constant id and is given another one was changed
C31_WitnessDiffed ==
    /\ RerenderDone
    /\ \E i \in MorphedEls : ~EqualConstIds(i) /\ pass.els[i].cids[1] # NoConstId
                               /\ ~Skipped(i) /\ DiffedEl(i)

\* the component instances that were created and have not reached their mount
BeingCreated == {h \in Handles(insts) : ~insts[h].mounted}
InBatch(h) == \E d \in 1..Len(batchStack) : InSeq(h, batchStack[d])

\* C32: a component is not handed to the update manager before its mount (no pass puts it on the
\* queue of a batch or on the unbatched queue, which is what schedules a tick), and a component that
\* has not reached its mount is on no queue
C32_NotQueuedWhileCreated ==
    /\ pass.early = {}
    /\ \A h \in BeingCreated : ~InSeq(h, unbatchedQueue) /\ ~InBatch(h)
\* a click-count component has been created by a pass: onCreate gave it its state, it got its input,
\* was rendered and mounted, and nothing is queued or scheduled
C32_Witness ==
    /\ \E h \in Handles(insts) :
          /\ insts[h].type = "click-count" /\ insts[h].mounted /\ insts[h].hasState
          /\ CountEv(pass.log, "create", h) = 1 /\ CountEv(pass.log, "mount", h) = 1
    /\ ~pass.err /\ unbatchedQueue = <<>> /\ ticks = 0

\* C33: a clean state has no old snapshot; from the first change until the reset the old snapshot is
\* another object than the live one and holds, for every key, the value that the state had before
\* the first change, and the live object holds the values of the snapshot overwritten by the changes
C33_CopyOnWrite ==
    /\ ~state.dirty => state.old = 0
    /\ state.dirty =>
          /\ state.old # 0 /\ state.old # state.raw
          /\ state.objs[state.old] = state.was
          /\ \A k \in StateKeys :
                MapGet(state.objs[state.raw], k, Undef)
                  = IF k \in DOMAIN state.changes THEN state.changes[k] ELSE MapGet(state.was, k, Undef)
\* a state that had values was changed more than once since its reset, and its live values differ
\* from the snapshot
C33_Witness ==
    /\ state.dirty /\ state.sets >= 1 /\ state.was # EmptyMap
    /\ state.objs[state.raw] # state.objs[state.old]

\* some key is present in only one of the two inputs, or the value of some key is not identical
ShallowDiffers(oldInput, newInput) ==
    \/ DOMAIN oldInput.props # DOMAIN newInput.props
    \/ \E key \in DOMAIN oldInput.props : oldInput.props[key] # newInput.props[key]

\* C34: a new input object given to a component that has an input object marks the component dirty
\* and, unless the component is queued already, queues it exactly when the two objects differ under
\* a shallow comparison of keys and values; when the two are shallowly equal nothing is queued
C34_ChangedIffShallowDiffers ==
    (component.op = "setInput" /\ ~component.oldInput.nullish /\ ~component.input.nullish) =>
        /\ component.dirty = ShallowDiffers(component.oldInput, component.input)
        /\ ShallowDiffers(component.oldInput, component.input) => component.updateQueued
        /\ ~ShallowDiffers(component.oldInput, component.input) => ~component.queuedNow

\* a change of the state property name of the component h is waiting to be taken into account
Owed(h, name) == h \in Handles(insts) /\ ~insts[h].destroyed /\ name \in insts[h].owed

\* every changed state property leads to its handler being called or to a render, when the callbacks
\* handed to nextTick are run (TickFair)
StateChangeLeadsToUpdate ==
    \A h \in 1..MaxInst : \A name \in {"count", "step"} : Owed(h, name) ~> ~Owed(h, name)

\* C35: no state change is lost: once nextTick holds no callback (nothing more will run unless the
\* page acts again), no changed state property of a live component is still waiting for its handler
\* to be called with the change or for the component to be rendered with it
C35_NoStateChangeLost ==
    ticks = 0 => \A h \in 1..MaxInst : \A name \in {"count", "step"} : ~Owed(h, name)

\* the last step was a tick flush that invoked the update of the component h
Flushed(h) == pass.kind = "tick" /\ \E i \in 1..Len(pass.log) : pass.log[i] = <<"call", h>>

\* a component on the unbatched queue leads to a tick flush that invokes its update, when the
\* callbacks handed to nextTick are run (TickFair)
QueuedLeadsToFlushed ==
    \A h \in 1..MaxInst : InSeq(h, unbatchedQueue) ~> Flushed(h)

\* C36: every component put on the unbatched queue is flushed, also when the update of a component
\* before it in the queue throws: after a tick flush that leaves nextTick without a callback, no
\* component is on the unbatched queue without its update having been invoked by the flush
C36_QueuedIsFlushed ==
    (pass.kind = "tick" /\ ticks = 0) => \A h \in 1..MaxInst : InSeq(h, unbatchedQueue) => Flushed(h)

\* the components that are not destroyed
Live == {h \in Handles(insts) : ~insts[h].destroyed}
\* the entry of the key in the keyed-element table of h refers to a node attached to the page under
\* the root node of h
EntryAttached(h, key) ==
    /\ insts[h].ke[key] # 0
    /\ nodes[insts[h].ke[key]].live
    /\ Top(nodes, insts[h].ke[key]) = Container
    /\ insts[h].root # 0
    /\ InSeq(insts[h].ke[key], Dfs(nodes, insts[h].root))

\* C37: after a reconcile pass that returned normally every entry of the keyed-element table of a
\* component refers to a real node attached to the page under that component
C37_KeyedEntriesAttached ==
    (pass.morphed /\ ~pass.err) =>
        \A h \in Live : \A key \in DOMAIN insts[h].ke : EntryAttached(h, key)

\* C38: no two calls of nextKey on one key sequence return the same resolved key
C38_ResolvedKeysDistinct ==
    \A i \in 1..Len(keyseq.calls) : \A j \in 1..Len(keyseq.calls) :
        i # j => keyseq.calls[i][2] # keyseq.calls[j][2]

\* the entries of the log of the last pass where the flush of a queue reached the component h
Calls(h) == {q \in 1..Len(pass.log) : pass.log[q] = <<"call", h>>}
\* the component h was rendered before the entry q of the log, in the same flush (no batch has ended
\* in between) and with the mutations that are waiting at q (none was made in between)
RenderedBefore(h, q) ==
    \E p \in 1..(q - 1) :
        /\ pass.log[p] = <<"render", h>>
        /\ \A x \in p..q : pass.log[x][1] # "exit" /\ pass.log[x] # <<"set", h>>
\* the entries of the log that follow the call q, up to the next call of the flush
Turn(q) == {r \in (q + 1)..Len(pass.log) : \A x \in (q + 1)..r : pass.log[x][1] # "call"}
\* what the update of h does in its turn: a render or a call of an update handler
Acts(h, r) == pass.log[r][1] \in {"render", "rerender", "handler"} /\ pass.log[r][2] = h

\* C39: a component that a flush has rendered as part of the re-render of an ancestor is not rendered
\* again, and none of its update handlers is called, when the flush reaches its own queued update
C39_RenderedOnceInFlush ==
    \A h \in 1..MaxInst : \A q \in Calls(h) :
        RenderedBefore(h, q) => \A r \in Turn(q) : ~Acts(h, r)
\* a tick flush reached the list component first, whose re-render rendered a dirty click-count
\* component, and then that component, which rendered once in the flush
C39_Witness ==
    /\ pass.kind = "tick" /\ ~pass.err
    /\ \E h \in 1..MaxInst : \E q \in Calls(h) :
          /\ h # Root /\ RenderedBefore(h, q) /\ \E q0 \in Calls(Root) : q0 < q
          /\ CountEv(pass.log, "render", h) = 1

\* the entries of the log of the last pass where a batchUpdate scope has ended
Exits == {x \in 1..(Len(pass.log) - 1) : pass.log[x][1] = "exit" /\ pass.log[x + 1][1] = "depth"}

C40_WitnessRouted ==
    /\ pass.kind = "mutate" /\ pass.h \in Handles(insts) /\ pass.h \notin pass.queued
    /\ InSeq(pass.h, unbatchedQueue)
====
